---------------------------- MODULE Spec2Model ----------------------------
(***************************************************************************)
(* PTZ11 broadcast controller: the VISCA-over-UDP command channel and the  *)
(* RTSP-to-MJPEG relay loop of src/app.py and src/ptz11_controller.py.     *)
(*                                                                         *)
(* The two scripts are two programs with the same architecture.  The       *)
(* variable prog says which of them is the running process; the actions    *)
(* of the other program are disabled.                                      *)
(*                                                                         *)
(* Text is a sequence of one-character strings, a byte a number in 0..255. *)
(* TLC's integers are 32-bit signed, so the 32-bit sequence counter is     *)
(* kept as two 16-bit halves [hi, lo]: its value is hi * 65536 + lo.       *)
(***************************************************************************)
EXTENDS Integers, Sequences, FiniteSets, TLC

VARIABLES
    prog,        \* "app" (src/app.py) or "ctl" (src/ptz11_controller.py)
    seq,         \* app.py seq / CONFIG['protocol']['sequence']
    bp_in,       \* packet-builder harness: the payload_hex argument
    bp_before,   \* packet-builder harness: the counter before the call
    bp_out,      \* packet-builder harness: the value returned (Unset before the call)
    \* ---- the command channel ----
    lock,        \* lock / visca_lock: the thread holding it, or NoThread
    pc,          \* per thread: where it stands in send_cmd / send_visca_command
    arg,         \* per thread: the payload_hex argument of its call
    cid,         \* per thread: the number of its call (0 before its first call)
    pay,         \* per thread: payload, the decoded bytes
    gs,          \* per thread: the counter value get_seq / increment_sequence loaded
    pkt,         \* per thread: pkt / packet
    hex,         \* per thread: clean_hex (ptz11_controller.py)
    resp,        \* per thread: response (ptz11_controller.py)
    ret,         \* per thread: the value its last call returned
    how,         \* per thread: what decided the outcome of its call
    socks,       \* the open UDP sockets, each named by the call that created it
    returned,    \* the calls that have returned
    ncalls,      \* the number of calls made
    last_cmd,    \* state['last_cmd'] / STATUS['last_command']
    last_error,  \* STATUS['last_error'] (ptz11_controller.py)
    built,       \* history: the packets built, in order
    wire,        \* history: the datagrams handed to sendto, in order
    dest,        \* history: the address each datagram of wire was sent to
    evlog,       \* history: sequence allocations and transmissions, in order
    \* ---- the relay loop ----
    viewers,         \* the consumers of the video stream that may connect
    gpc,             \* per viewer: where its gen_frames generator stands
    cap,             \* per viewer: cap: "None", "open" (isOpened() true), "dead" (false)
    error_count,     \* per viewer: error_count
    frame,           \* per viewer: what frame holds: "none", "frame", "placeholder"
    stream_status,   \* state['stream_status']
    stream_fps,      \* state['stream_fps']
    stream_frame_count,  \* stream_frame_count
    stream_last_time,    \* stream_last_time, in clock ticks
    now,             \* the wall clock, in ticks
    nfail,           \* history, per viewer: failed reads on this handle since the last good read
                     \*   (ptz11_controller.py: counted up to MaxFails)
    it,              \* history, per viewer: what the current iteration has done
    wreads,          \* history, per viewer: its successful reads since its last publication
    fresh,           \* history: a read has succeeded since the clock last advanced
    gap,             \* history: since the last publication the clock advanced with no
                     \*   successful read in the tick that ended
    pub,             \* history: the last publication of the frame rate
    \* ---- the operations of the HTTP interface ----
    req,         \* per thread: the request it serves (NoReq: none)
    opc,         \* per thread: where it stands in the operation of its request
    opret,       \* per thread: the value the operation returned
    state,       \* state: preset_active, zoom, focus, pan, tilt, reachable
    cam,         \* CAM_IP, CAM_PORT, RTSP_URL
    snap         \* per thread: what its status request has read so far

bpvars == <<bp_in, bp_before, bp_out>>

thvars == <<pc, arg, cid, pay, gs, pkt, hex, resp, ret, how>>

chvars == <<lock, socks, returned, ncalls, last_cmd, last_error>>

histvars == <<built, wire, evlog, dest>>

\* the address argument of sendto: (CAM_IP, CAM_PORT) in app.py,
\* (CONFIG['camera']['ip'], CONFIG['camera']['port']) in ptz11_controller.py
Endpoint == <<cam.ip, cam.port>>

cmdvars == <<thvars, chvars, histvars>>

gfvars == <<gpc, cap, error_count, frame, nfail, it>>

stvars == <<stream_status, stream_fps, stream_frame_count, stream_last_time>>

\* the history of the frame-rate accounting
acctvars == <<wreads, fresh, gap, pub>>

relayvars == <<viewers, gfvars, stvars, now, acctvars>>

opvars == <<req, opc, opret, state, cam, snap>>

(***************************************************************************)
(* Bounds of the model.                                                    *)
(***************************************************************************)
\* longest payload string enumerated character by character
MaxLen == 3

\* calls of the send operation in one run, over all threads
MaxCalls == 2

\* failed reads in a row on one capture handle
MaxFails == 20

\* frames the source delivers within one window of the frame-rate accounting
MaxFrames == 3

\* the last tick of the wall clock
MaxTime == 4

\* the largest speed argument of pan_tilt, zoom and focus (the smallest is -2)
MaxSpeed == 26

\* the largest preset number requested (the smallest is -1)
MaxNum == 257

(***************************************************************************)
(* Characters and bytes.                                                   *)
(***************************************************************************)
\* Python's None where bytes are expected, and where text is expected (a byte is
\* never negative and a character is one letter long, so neither is a value)
None == <<-1>>

NoneText == <<"None">>

\* the harness before the call
Unset == <<-2>>

Lowers == <<"a","b","c","d","e","f","g","h","i","j","k","l","m",
            "n","o","p","q","r","s","t","u","v","w","x","y","z">>

Uppers == <<"A","B","C","D","E","F","G","H","I","J","K","L","M",
            "N","O","P","Q","R","S","T","U","V","W","X","Y","Z">>

HexDigits == <<"0","1","2","3","4","5","6","7","8","9","A","B","C","D","E","F">>

\* the characters bytes.fromhex skips between two bytes
AsciiSpace == {" ", "\t", "\n", "\r", "\f"}

\* str.upper() on one character
UpperChar(c) ==
    IF \E i \in 1..26 : Lowers[i] = c
    THEN Uppers[CHOOSE i \in 1..26 : Lowers[i] = c]
    ELSE c

\* payload_hex.replace(' ', '').upper()
CleanHex(s) ==
    LET kept == SelectSeq(s, LAMBDA c : c # " ")
    IN  [i \in 1..Len(kept) |-> UpperChar(kept[i])]

IsHexChar(c) == \E i \in 1..16 : HexDigits[i] = UpperChar(c)

HexVal(c) == (CHOOSE i \in 1..16 : HexDigits[i] = UpperChar(c)) - 1

\* (a decoder that ignores a last digit without a partner)
FromHexLenient(s) ==
    LET at == SelectSeq([i \in 1..Len(s) |-> i], LAMBDA i : s[i] \notin AsciiSpace)
        n  == Len(at) \div 2
    IN  IF /\ \A k \in 1..Len(at) : IsHexChar(s[at[k]])
           /\ \A k \in 1..n : at[2 * k] = at[2 * k - 1] + 1
        THEN [k \in 1..n |-> 16 * HexVal(s[at[2 * k - 1]]) + HexVal(s[at[2 * k]])]
        ELSE None

\* bytearray.fromhex(s): None stands for the ValueError it raises.  fromhex
\* skips white space before a byte and then wants two adjacent hex digits.
FromHex(s) ==
    LET at == SelectSeq([i \in 1..Len(s) |-> i], LAMBDA i : s[i] \notin AsciiSpace)
        n  == Len(at) \div 2
    IN  IF /\ Len(at) % 2 = 0
           /\ \A k \in 1..Len(at) : IsHexChar(s[at[k]])
           /\ \A k \in 1..n : at[2 * k] = at[2 * k - 1] + 1
        THEN [k \in 1..n |-> 16 * HexVal(s[at[2 * k - 1]]) + HexVal(s[at[2 * k]])]
        ELSE None

(***************************************************************************)
(* The sequence counter.                                                   *)
(***************************************************************************)
Half == 65536

SeqVal(h, l) == [hi |-> h, lo |-> l]

\* (seq + 1) & 0xFFFFFFFF
SeqIncWrong(s) ==
    IF s.lo = Half - 1 THEN SeqVal(s.hi, 0) ELSE SeqVal(s.hi, s.lo + 1)

SeqInc(s) ==
    IF s.lo = Half - 1 THEN SeqVal((s.hi + 1) % Half, 0) ELSE SeqVal(s.hi, s.lo + 1)

\* s.to_bytes(4, 'big')
ToBytes4Little(s) ==
    <<s.lo % 256, s.lo \div 256, s.hi % 256, s.hi \div 256>>

ToBytes4(s) ==
    <<s.hi \div 256, s.hi % 256, s.lo \div 256, s.lo % 256>>

\* the counter values a run may start from: the value at process start, and
\* values a long-running process reaches just before a carry and the wrap
SeqStartsApp == {SeqVal(0, 0), SeqVal(0, Half - 2), SeqVal(Half - 1, Half - 2)}

SeqStartsCtl == {SeqVal(0, 1), SeqVal(0, Half - 2), SeqVal(Half - 1, Half - 2)}

\* for a single call of the builder: also the values right at a carry and at the wrap
SeqStartsBuild == {SeqVal(0, Half - 1), SeqVal(Half - 1, Half - 1)}

(***************************************************************************)
(* The packet builders.                                                    *)
(***************************************************************************)
\* header + payload + b'\xFF' for decoded payload bytes and sequence value s
AssembleNoTerm(payload, s) ==
    <<1, 0, 0, (Len(payload) + 1) % 256>> \o ToBytes4(s) \o payload

Assemble(payload, s) ==
    <<1, 0, 0, (Len(payload) + 1) % 256>> \o ToBytes4(s) \o payload \o <<255>>

\* app.py visca_packet as one call: the packet (None on error) and the counter after
visca_packet(payload_hex, s) ==
    LET payload == FromHex(CleanHex(payload_hex))
    IN  IF payload = None
        THEN [pkt |-> None, seq |-> s]
        ELSE [pkt |-> Assemble(payload, SeqInc(s)), seq |-> SeqInc(s)]

\* ptz11_controller.py build_visca_packet as one call: (packet, clean hex) or
\* (None, message), and the counter after
build_visca_packet(payload_hex, s) ==
    LET clean == CleanHex(payload_hex)
        payload == FromHex(clean)
    IN  IF payload = None
        THEN [pkt |-> None, hex |-> NoneText, seq |-> s]
        ELSE [pkt |-> Assemble(payload, SeqInc(s)), hex |-> clean, seq |-> SeqInc(s)]

(***************************************************************************)
(* Payload strings.                                                        *)
(***************************************************************************)
Alphabet == {"8", "1", "f", "A", " ", "Z"}

\* the string s repeated k times
Rep(s, k) == [i \in 1..(k * Len(s)) |-> s[((i - 1) % Len(s)) + 1]]

ShortInputs == UNION {[1..n -> Alphabet] : n \in 0..MaxLen}

\* payloads of 254 bytes (the longest the length byte can describe) and 255
LongInputs == {Rep(<<"A", "b">>, 254), Rep(<<"0", "1", " ">>, 254), Rep(<<"A", "b">>, 255)}

(***************************************************************************)
(* The relay loop: gen_frames.                                             *)
(***************************************************************************)
Viewers == {"v1", "v2"}

\* error_count > 10
Threshold == 10

\* the 1.0 second of the frame-rate window, in clock ticks
TicksPerSec == 2

\* what an iteration has done so far: the outcome of its read, the number of
\* the failed read on this handle, the outcome of the encoding, the chunks it
\* yielded and the kind of the last one
NewIt ==
    [rd |-> "none", k |-> 0, enc |-> "none", chunks |-> 0, kind |-> "none", out |-> <<>>]

\* the state of the relay before any consumer has connected
\* buf.tobytes(): the JPEG image imencode makes of a frame, from its SOI
\* marker to its EOI marker
Jpeg(f) == IF f = "frame" THEN <<255, 216, 1, 255, 217>> ELSE <<255, 216, 0, 255, 217>>

\* b'--frame\r\nContent-Type: image/jpeg\r\n\r\n'
ChunkHead ==
    <<45, 45, 102, 114, 97, 109, 101, 13, 10, 67, 111, 110, 116, 101, 110, 116, 45,
      84, 121, 112, 101, 58, 32, 105, 109, 97, 103, 101, 47, 106, 112, 101, 103, 13, 10,
      13, 10>>

\* (a chunk without the line end after the image)
ChunkNoLineEnd(buf) == ChunkHead \o buf

\* the chunk yielded for an image
Chunk(buf) == ChunkHead \o buf \o <<13, 10>>

\* no publication yet
NoPub ==
    [by |-> "none", at |-> 0, prev |-> 0, v |-> 0, r |-> [v \in Viewers |-> 0],
     gap |-> FALSE]

RelayIdle ==
    /\ gpc = [v \in Viewers |-> "off"]
    /\ cap = [v \in Viewers |-> "None"]
    /\ error_count = [v \in Viewers |-> 0]
    /\ frame = [v \in Viewers |-> "none"]
    /\ stream_status = "initializing"
    /\ stream_fps = 0
    /\ stream_frame_count = 0
    /\ stream_last_time = 0
    /\ now = 0
    /\ nfail = [v \in Viewers |-> 0]
    /\ it = [v \in Viewers |-> NewIt]
    /\ wreads = [v \in Viewers |-> 0]
    /\ fresh = FALSE
    /\ gap = FALSE
    /\ pub = NoPub

(***************************************************************************)
(* Requests of the HTTP interface and the state they change.               *)
(***************************************************************************)
\* a request: its name, its string arguments, its integer arguments and,
\* for a raw send, the payload string
Req(name, d1, d2, d3, n1, n2, p) ==
    [name |-> name, d1 |-> d1, d2 |-> d2, d3 |-> d3, n1 |-> n1, n2 |-> n2, p |-> p]

NoReq == Req("none", "", "", "", 0, 0, <<>>)

\* the integer 0 the fields zoom, focus, pan and tilt of state start with
\* (afterwards they hold the direction strings)
Zero == "0"

\* state, CAM_IP / CAM_PORT / RTSP_URL at process start
\* a status request that has read nothing yet
NoSnap == [pan |-> "-", tilt |-> "-"]

\* the state dict as the module creates it
StateStart ==
    [preset_active |-> 0, zoom |-> Zero, focus |-> Zero, pan |-> Zero,
     tilt |-> Zero, reachable |-> FALSE]

\* CAM_IP, CAM_PORT and RTSP_URL as the process starts
CamStart == [ip |-> "192.168.1.11", port |-> "52381", rtsp |-> "rtsp://192.168.1.11/1/h264major"]

OpsStart ==
    /\ opc = [t \in {"t1", "t2"} |-> "idle"]
    /\ opret = [t \in {"t1", "t2"} |-> "none"]
    /\ state = StateStart
    /\ snap = [t \in {"t1", "t2"} |-> NoSnap]
    /\ cam = CamStart

\* no request is served
OpsIdle ==
    /\ req = [t \in {"t1", "t2"} |-> NoReq]
    /\ OpsStart

\* the hex digits of n >= 0, most significant first
RECURSIVE HexStr(_)
HexStr(n) ==
    IF n < 16 THEN <<HexDigits[n + 1]>> ELSE HexStr(n \div 16) \o <<HexDigits[(n % 16) + 1]>>

\* f"{n:02X}": upper-case hex, zero-padded to two characters, the sign counted
Hex02(n) ==
    IF n < 0
    THEN <<"-">> \o HexStr(0 - n)
    ELSE IF n < 16 THEN <<"0">> \o HexStr(n) ELSE HexStr(n)

\* a direction argument as the characters an f-string inserts
Text(d) ==
    CASE d = "01" -> <<"0", "1">>
      [] d = "02" -> <<"0", "2">>
      [] d = "03" -> <<"0", "3">>
      [] d = "00" -> <<"0", "0">>
      [] d = "ZZ" -> <<"Z", "Z">>

\* pan_tilt, lines 123-128: the command string
PanTiltCmd(pan_speed, tilt_speed, pan_dir, tilt_dir) ==
    LET ps == IF pan_speed < 0 \/ pan_speed > 24 THEN 0 ELSE pan_speed
        ts == IF tilt_speed < 0 \/ tilt_speed > 24 THEN 0 ELSE tilt_speed
    IN  <<"8","1"," ","0","1"," ","0","6"," ","0","1"," ">> \o Hex02(ps) \o <<" ">>
            \o Hex02(ts) \o <<" ">> \o Text(pan_dir) \o <<" ">> \o Text(tilt_dir)

\* max(0, min(hi, speed))
Clamp(speed, hi) == IF speed > hi THEN hi ELSE IF speed < 0 THEN 0 ELSE speed

\* (a zoom that masks the speed to four bits instead of clamping it)
ZoomCmdMasked(direction, speed) ==
    LET byte == CASE direction = "in" -> 32 + (speed % 16)
                  [] direction = "out" -> 48 + (speed % 16)
                  [] OTHER -> 0
    IN  <<"8","1"," ","0","1"," ","0","4"," ","0","7"," ">> \o Hex02(byte)

\* zoom, lines 135-142: the command string
ZoomCmd(direction, speed) ==
    LET byte == CASE direction = "in" -> 32 + Clamp(speed, 7)
                  [] direction = "out" -> 48 + Clamp(speed, 7)
                  [] OTHER -> 0
    IN  <<"8","1"," ","0","1"," ","0","4"," ","0","7"," ">> \o Hex02(byte)

\* (a focus that clamps the speed to 7)
FocusCmdClamp7(direction, speed) ==
    LET byte == CASE direction = "near" -> 32 + Clamp(speed, 7)
                  [] direction = "far" -> 48 + Clamp(speed, 7)
                  [] OTHER -> 0
    IN  <<"8","1"," ","0","1"," ","0","4"," ","0","8"," ">> \o Hex02(byte)

\* focus, lines 147-154: the command string
FocusCmd(direction, speed) ==
    LET byte == CASE direction = "near" -> 32 + Clamp(speed, 8)
                  [] direction = "far" -> 48 + Clamp(speed, 8)
                  [] OTHER -> 0
    IN  <<"8","1"," ","0","1"," ","0","4"," ","0","8"," ">> \o Hex02(byte)

\* preset_set (code "00"), preset_call ("02"), preset_delete ("01"): the command string
PresetCmd(code, num) ==
    <<"8","1"," ","0","1"," ","0","4"," ","3","F"," ">> \o Text(code) \o <<" ">> \o Hex02(num)

(***************************************************************************)
(* The command channel: threads calling send_cmd (app.py) or               *)
(* send_visca_command (ptz11_controller.py).                               *)
(***************************************************************************)
Threads == {"t1", "t2"}

NoThread == "none"

\* "81 01 04 07 00" (zoom stop), "81010408 2a" (lower case, one space), "ZZ"
CmdPayloads ==
    { <<"8","1"," ","0","1"," ","0","4"," ","0","7"," ","0","0">>,
      <<"8","1","0","1","0","4","0","8"," ","2","a">>,
      <<"Z","Z">> }

\* datagrams the camera may answer with: a bare VISCA ACK (3 bytes), a
\* VISCA-over-IP reply (type 0x01 0x11, 8-byte header), and 8 bytes that
\* begin with 0x90 and with 0x91
Replies ==
    { <<144, 65, 255>>,
      <<1, 17, 0, 3, 0, 0, 0, 1, 144, 65, 255>>,
      <<144, 65, 255, 144, 81, 255, 0, 0>>,
      <<145, 65, 255, 144, 81, 255, 0, 0>> }

\* a returned value: app.py returns a boolean, ptz11_controller.py a pair of
\* a boolean and a message
Ret(b, m) == [ok |-> b, msg |-> m]

\* the state of the command channel when no call has been made
CmdIdle ==
    /\ lock = NoThread
    /\ pc = [t \in Threads |-> "idle"]
    /\ arg = [t \in Threads |-> NoneText]
    /\ cid = [t \in Threads |-> 0]
    /\ pay = [t \in Threads |-> None]
    /\ gs = [t \in Threads |-> SeqVal(0, 0)]
    /\ pkt = [t \in Threads |-> None]
    /\ hex = [t \in Threads |-> NoneText]
    /\ resp = [t \in Threads |-> None]
    /\ ret = [t \in Threads |-> Ret(FALSE, "")]
    /\ how = [t \in Threads |-> "none"]
    /\ socks = {}
    /\ returned = {}
    /\ ncalls = 0
    /\ last_cmd = NoneText
    /\ last_error = "None"
    /\ built = <<>>
    /\ wire = <<>>
    /\ dest = <<>>
    /\ evlog = <<>>

InitApp ==
    /\ prog = "app"
    /\ seq \in SeqStartsApp
    /\ CmdIdle
    /\ bp_in = NoneText /\ bp_before = seq /\ bp_out = Unset
    /\ viewers = {}
    /\ RelayIdle
    /\ OpsIdle

InitCtl ==
    /\ prog = "ctl"
    /\ seq \in SeqStartsCtl
    /\ CmdIdle
    /\ bp_in = NoneText /\ bp_before = seq /\ bp_out = Unset
    /\ viewers = {}
    /\ RelayIdle
    /\ OpsIdle

\* a thread enters send_cmd / send_visca_command with the payload p
Enter(t, p) ==
    /\ pc[t] = "idle"
    /\ arg' = [arg EXCEPT ![t] = p]
    /\ ncalls' = ncalls + 1
    /\ cid' = [cid EXCEPT ![t] = ncalls + 1]
    /\ pc' = [pc EXCEPT ![t] = "lock"]
    /\ pay' = [pay EXCEPT ![t] = None]
    /\ pkt' = [pkt EXCEPT ![t] = None]
    /\ hex' = [hex EXCEPT ![t] = NoneText]
    /\ resp' = [resp EXCEPT ![t] = None]
    /\ how' = [how EXCEPT ![t] = "running"]
    /\ UNCHANGED <<relayvars, prog, seq, bpvars, gs, ret, lock, socks, returned,
                   last_cmd, last_error, histvars>>

\* a request thread enters send_cmd / send_visca_command with a payload
Call(t) ==
    /\ ncalls < MaxCalls
    /\ \E p \in CmdPayloads : Enter(t, p)
    /\ UNCHANGED opvars

\* with lock: the thread waits until the lock is free
AcquireNoWait(t) ==
    /\ pc[t] = "lock"
    /\ pc' = [pc EXCEPT ![t] = "decode"]
    /\ UNCHANGED <<opvars, relayvars, lock, prog, seq, bpvars, arg, cid, pay, gs, pkt, hex, resp, ret, how,
                   socks, returned, ncalls, last_cmd, last_error, histvars>>

Acquire(t) ==
    /\ pc[t] = "lock"
    /\ lock = NoThread
    /\ lock' = t
    /\ pc' = [pc EXCEPT ![t] = "decode"]
    /\ UNCHANGED <<opvars, relayvars, prog, seq, bpvars, arg, cid, pay, gs, pkt, hex, resp, ret, how,
                   socks, returned, ncalls, last_cmd, last_error, histvars>>

\* (a builder that takes its sequence value before it decodes the payload)
AppDecodeSeqFirst(t) ==
    /\ prog = "app"
    /\ pc[t] = "decode"
    /\ LET payload == FromHex(CleanHex(arg[t]))
       IN  IF payload = None
           THEN /\ ret' = [ret EXCEPT ![t] = Ret(FALSE, "")]
                /\ how' = [how EXCEPT ![t] = "build"]
                /\ pc' = [pc EXCEPT ![t] = "unlock"]
                /\ pay' = pay
                /\ seq' = SeqInc(seq)
           ELSE /\ pay' = [pay EXCEPT ![t] = payload]
                /\ pc' = [pc EXCEPT ![t] = "gs_load"]
                /\ UNCHANGED <<ret, how, seq>>
    /\ UNCHANGED <<opvars, relayvars, prog, bpvars, arg, cid, gs, pkt, hex, resp, chvars, histvars>>

\* visca_packet, lines 85-86 and 92-94: a payload that does not decode makes
\* the builder return None and send_cmd return False
AppDecode(t) ==
    /\ prog = "app"
    /\ pc[t] = "decode"
    /\ LET payload == FromHex(CleanHex(arg[t]))
       IN  IF payload = None
           THEN /\ ret' = [ret EXCEPT ![t] = Ret(FALSE, "")]
                /\ how' = [how EXCEPT ![t] = "build"]
                /\ pc' = [pc EXCEPT ![t] = "unlock"]
                /\ pay' = pay
           ELSE /\ pay' = [pay EXCEPT ![t] = payload]
                /\ pc' = [pc EXCEPT ![t] = "gs_load"]
                /\ UNCHANGED <<ret, how>>
    /\ UNCHANGED <<opvars, relayvars, prog, seq, bpvars, arg, cid, gs, pkt, hex, resp, chvars, histvars>>

\* get_seq / increment_sequence: the right-hand side reads the counter
SeqLoad(t) ==
    /\ pc[t] = "gs_load"
    /\ gs' = [gs EXCEPT ![t] = seq]
    /\ pc' = [pc EXCEPT ![t] = "gs_store"]
    /\ UNCHANGED <<opvars, relayvars, prog, seq, bpvars, arg, cid, pay, pkt, hex, resp, ret, how,
                   chvars, histvars>>

\* get_seq / increment_sequence: the assignment stores the value loaded, plus one
SeqStore(t) ==
    /\ pc[t] = "gs_store"
    /\ seq' = SeqInc(gs[t])
    /\ evlog' = Append(evlog, [e |-> "alloc", c |-> cid[t]])
    /\ pc' = [pc EXCEPT ![t] = "asm"]
    /\ UNCHANGED <<opvars, relayvars, prog, bpvars, arg, cid, pay, gs, pkt, hex, resp, ret, how,
                   chvars, built, wire, dest>>

\* get_seq returns the counter; visca_packet, lines 88-91, assembles the packet
AppAssemble(t) ==
    /\ prog = "app"
    /\ pc[t] = "asm"
    /\ pkt' = [pkt EXCEPT ![t] = Assemble(pay[t], seq)]
    /\ built' = Append(built, Assemble(pay[t], seq))
    /\ pc' = [pc EXCEPT ![t] = "mksock"]
    /\ UNCHANGED <<opvars, relayvars, prog, seq, bpvars, arg, cid, pay, gs, hex, resp, ret, how,
                   chvars, wire, evlog, dest>>

\* send_cmd, lines 104-105: socket.socket() gives a socket or raises
AppMkSock(t) ==
    /\ prog = "app"
    /\ pc[t] = "mksock"
    /\ \/ /\ socks' = socks \cup {cid[t]}
          /\ pc' = [pc EXCEPT ![t] = "sendto"]
          /\ UNCHANGED <<ret, how>>
       \/ /\ ret' = [ret EXCEPT ![t] = Ret(FALSE, "")]
          /\ how' = [how EXCEPT ![t] = "socket"]
          /\ pc' = [pc EXCEPT ![t] = "unlock"]
          /\ socks' = socks
    /\ UNCHANGED <<opvars, relayvars, prog, seq, bpvars, arg, cid, pay, gs, pkt, hex, resp,
                   lock, returned, ncalls, last_cmd, last_error, histvars>>

\* (a send that tries once more after a failed sendto)
AppSendToRetry(t) ==
    /\ prog = "app"
    /\ pc[t] = "sendto"
    /\ \/ /\ wire' = Append(wire, pkt[t])
          /\ dest' = Append(dest, Endpoint)
          /\ evlog' = Append(evlog, [e |-> "tx", c |-> cid[t]])
          /\ pc' = [pc EXCEPT ![t] = "setlast"]
          /\ UNCHANGED <<ret, how>>
       \/ /\ how' = [how EXCEPT ![t] = "sendto"]
          /\ pc' = [pc EXCEPT ![t] = IF how[t] = "sendto" THEN "unlock" ELSE "gs_load"]
          /\ ret' = [ret EXCEPT ![t] = Ret(FALSE, "")]
          /\ UNCHANGED <<wire, evlog, dest>>
    /\ UNCHANGED <<opvars, relayvars, prog, seq, bpvars, arg, cid, pay, gs, pkt, hex, resp,
                   chvars, built>>

\* send_cmd, line 106 (and 117-119): sendto hands the packet to the socket,
\* or raises and the handler returns False; the handler does not close sock
AppSendTo(t) ==
    /\ prog = "app"
    /\ pc[t] = "sendto"
    /\ \/ /\ wire' = Append(wire, pkt[t])
          /\ dest' = Append(dest, Endpoint)
          /\ evlog' = Append(evlog, [e |-> "tx", c |-> cid[t]])
          /\ pc' = [pc EXCEPT ![t] = "setlast"]
          /\ UNCHANGED <<ret, how>>
       \/ /\ ret' = [ret EXCEPT ![t] = Ret(FALSE, "")]
          /\ how' = [how EXCEPT ![t] = "sendto"]
          /\ pc' = [pc EXCEPT ![t] = "unlock"]
          /\ UNCHANGED <<wire, evlog, dest>>
    /\ UNCHANGED <<opvars, relayvars, prog, seq, bpvars, arg, cid, pay, gs, pkt, hex, resp,
                   chvars, built>>

\* (a send that records the cleaned payload text instead of the raw one)
AppSetLastCleaned(t) ==
    /\ prog = "app"
    /\ pc[t] = "setlast"
    /\ last_cmd' = CleanHex(arg[t])
    /\ pc' = [pc EXCEPT ![t] = "recv"]
    /\ UNCHANGED <<opvars, relayvars, prog, seq, bpvars, arg, cid, pay, gs, pkt, hex, resp, ret, how,
                   lock, socks, returned, ncalls, last_error, histvars>>

\* send_cmd, line 107: state['last_cmd'] = payload_hex
AppSetLast(t) ==
    /\ prog = "app"
    /\ pc[t] = "setlast"
    /\ last_cmd' = arg[t]
    /\ pc' = [pc EXCEPT ![t] = "recv"]
    /\ UNCHANGED <<opvars, relayvars, prog, seq, bpvars, arg, cid, pay, gs, pkt, hex, resp, ret, how,
                   lock, socks, returned, ncalls, last_error, histvars>>

\* send_cmd, lines 109-112: recvfrom returns a datagram, times out after
\* 0.5 s (socket.timeout, swallowed), or raises another error, which
\* propagates through the finally clause
AppRecvTimeoutRaises(t) ==
    /\ prog = "app"
    /\ pc[t] = "recv"
    /\ \/ /\ \E r \in Replies : how' = [how EXCEPT ![t] = "reply"]
          /\ pc' = [pc EXCEPT ![t] = "close"]
       \/ /\ how' = [how EXCEPT ![t] = "timeout"]
          /\ pc' = [pc EXCEPT ![t] = "close_exc"]
       \/ /\ how' = [how EXCEPT ![t] = "recv"]
          /\ pc' = [pc EXCEPT ![t] = "close_exc"]
    /\ UNCHANGED <<opvars, relayvars, prog, seq, bpvars, arg, cid, pay, gs, pkt, hex, resp, ret,
                   chvars, histvars>>

AppRecv(t) ==
    /\ prog = "app"
    /\ pc[t] = "recv"
    /\ \/ /\ \E r \in Replies : how' = [how EXCEPT ![t] = "reply"]
          /\ pc' = [pc EXCEPT ![t] = "close"]
       \/ /\ how' = [how EXCEPT ![t] = "timeout"]
          /\ pc' = [pc EXCEPT ![t] = "close"]
       \/ /\ how' = [how EXCEPT ![t] = "recv"]
          /\ pc' = [pc EXCEPT ![t] = "close_exc"]
    /\ UNCHANGED <<opvars, relayvars, prog, seq, bpvars, arg, cid, pay, gs, pkt, hex, resp, ret,
                   chvars, histvars>>

\* send_cmd, lines 113-119: finally closes the socket; then return True, or
\* the error recvfrom raised reaches the handler, which returns False
AppClose(t) ==
    /\ prog = "app"
    /\ pc[t] \in {"close", "close_exc"}
    /\ socks' = socks \ {cid[t]}
    /\ ret' = [ret EXCEPT ![t] = Ret(pc[t] = "close", "")]
    /\ pc' = [pc EXCEPT ![t] = "unlock"]
    /\ UNCHANGED <<opvars, relayvars, prog, seq, bpvars, arg, cid, pay, gs, pkt, hex, resp, how,
                   lock, returned, ncalls, last_cmd, last_error, histvars>>

\* leaving the with block releases the lock
Release(t) ==
    /\ pc[t] = "unlock"
    /\ lock' = (IF lock = t THEN NoThread ELSE lock)
    /\ pc' = [pc EXCEPT ![t] = "return"]
    /\ UNCHANGED <<opvars, relayvars, prog, seq, bpvars, arg, cid, pay, gs, pkt, hex, resp, ret, how,
                   socks, returned, ncalls, last_cmd, last_error, histvars>>

\* the call returns and its frame, the last reference to sock, is dropped.  A
\* socket the call left open is closed by the runtime when it collects the
\* object: at once under reference counting, at some later time otherwise.
Return(t) ==
    /\ pc[t] = "return"
    /\ returned' = returned \cup {cid[t]}
    /\ pc' = [pc EXCEPT ![t] = "idle"]
    /\ \/ socks' = socks \ {cid[t]}
       \/ socks' = socks
    /\ UNCHANGED <<opvars, relayvars, prog, seq, bpvars, arg, cid, pay, gs, pkt, hex, resp, ret, how,
                   lock, ncalls, last_cmd, last_error, histvars>>

\* the runtime collects a socket object no frame refers to any more
Finalize ==
    /\ \E c \in socks \cap returned : socks' = socks \ {c}
    /\ UNCHANGED <<opvars, relayvars, prog, seq, bpvars, thvars, lock, returned, ncalls,
                   last_cmd, last_error, histvars>>

AppStep(t) ==
    \/ Call(t) \/ Acquire(t) \/ AppDecode(t) \/ SeqLoad(t) \/ SeqStore(t)
    \/ AppAssemble(t) \/ AppMkSock(t) \/ AppSendTo(t) \/ AppSetLast(t)
    \/ AppRecv(t) \/ AppClose(t) \/ Release(t) \/ Return(t)

NextApp == (\E t \in Threads : AppStep(t)) \/ Finalize

(***************************************************************************)
(* send_visca_command of ptz11_controller.py.                              *)
(***************************************************************************)
\* build_visca_packet, lines 85-86 and 93-95; send_visca_command, 101-102
CtlDecode(t) ==
    /\ prog = "ctl"
    /\ pc[t] = "decode"
    /\ LET clean == CleanHex(arg[t])
           payload == FromHex(clean)
       IN  IF payload = None
           THEN /\ ret' = [ret EXCEPT ![t] = Ret(FALSE, "Packet build failed")]
                /\ how' = [how EXCEPT ![t] = "build"]
                /\ pc' = [pc EXCEPT ![t] = "unlock"]
                /\ UNCHANGED <<pay, hex>>
           ELSE /\ pay' = [pay EXCEPT ![t] = payload]
                /\ hex' = [hex EXCEPT ![t] = clean]
                /\ pc' = [pc EXCEPT ![t] = "gs_load"]
                /\ UNCHANGED <<ret, how>>
    /\ UNCHANGED <<opvars, relayvars, prog, seq, bpvars, arg, cid, gs, pkt, resp, chvars, histvars>>

\* increment_sequence returns the counter; build_visca_packet, lines 88-92
CtlAssemble(t) ==
    /\ prog = "ctl"
    /\ pc[t] = "asm"
    /\ pkt' = [pkt EXCEPT ![t] = Assemble(pay[t], seq)]
    /\ built' = Append(built, Assemble(pay[t], seq))
    /\ pc' = [pc EXCEPT ![t] = "mksock"]
    /\ UNCHANGED <<opvars, relayvars, prog, seq, bpvars, arg, cid, pay, gs, hex, resp, ret, how,
                   chvars, wire, evlog, dest>>

\* send_visca_command, lines 103-104: socket.socket() gives a socket or raises
CtlMkSock(t) ==
    /\ prog = "ctl"
    /\ pc[t] = "mksock"
    /\ \/ /\ socks' = socks \cup {cid[t]}
          /\ pc' = [pc EXCEPT ![t] = "sendto"]
          /\ how' = how
       \/ /\ how' = [how EXCEPT ![t] = "socket"]
          /\ pc' = [pc EXCEPT ![t] = "except"]
          /\ socks' = socks
    /\ UNCHANGED <<opvars, relayvars, prog, seq, bpvars, arg, cid, pay, gs, pkt, hex, resp, ret,
                   lock, returned, ncalls, last_cmd, last_error, histvars>>

\* send_visca_command, line 106: sendto hands the packet to the socket or raises
CtlSendTo(t) ==
    /\ prog = "ctl"
    /\ pc[t] = "sendto"
    /\ \/ /\ wire' = Append(wire, pkt[t])
          /\ dest' = Append(dest, Endpoint)
          /\ evlog' = Append(evlog, [e |-> "tx", c |-> cid[t]])
          /\ pc' = [pc EXCEPT ![t] = "recv"]
          /\ how' = how
       \/ /\ how' = [how EXCEPT ![t] = "sendto"]
          /\ pc' = [pc EXCEPT ![t] = "except"]
          /\ UNCHANGED <<wire, evlog, dest>>
    /\ UNCHANGED <<opvars, relayvars, prog, seq, bpvars, arg, cid, pay, gs, pkt, hex, resp, ret,
                   chvars, built>>

\* the test of lines 109-111 on a response
CtlAccepts(r) == Len(r) >= 8 /\ r[1] \in {144, 145}

\* send_visca_command, lines 107-111, 115 and 128: recvfrom returns a
\* response, times out, or raises another error.  A response that fails the
\* test of lines 109-111 leaves both try blocks and the with block without
\* closing sock and reaches line 128.
CtlRecv(t) ==
    /\ prog = "ctl"
    /\ pc[t] = "recv"
    /\ \/ \E r \in Replies :
              /\ resp' = [resp EXCEPT ![t] = r]
              /\ how' = [how EXCEPT ![t] = "reply"]
              /\ IF CtlAccepts(r)
                 THEN /\ pc' = [pc EXCEPT ![t] = "setlast"]
                      /\ ret' = ret
                 ELSE /\ pc' = [pc EXCEPT ![t] = "unlock"]
                      /\ ret' = [ret EXCEPT ![t] = Ret(FALSE, "Unknown error")]
       \/ /\ how' = [how EXCEPT ![t] = "timeout"]
          /\ pc' = [pc EXCEPT ![t] = "setlast"]
          /\ UNCHANGED <<resp, ret>>
       \/ /\ how' = [how EXCEPT ![t] = "recv"]
          /\ pc' = [pc EXCEPT ![t] = "except"]
          /\ UNCHANGED <<resp, ret>>
    /\ UNCHANGED <<opvars, relayvars, prog, seq, bpvars, arg, cid, pay, gs, pkt, hex, chvars, histvars>>

\* send_visca_command, lines 112 and 116: STATUS['last_command'] = clean_hex
CtlSetLast(t) ==
    /\ prog = "ctl"
    /\ pc[t] = "setlast"
    /\ last_cmd' = hex[t]
    /\ pc' = [pc EXCEPT ![t] = "close"]
    /\ UNCHANGED <<opvars, relayvars, prog, seq, bpvars, arg, cid, pay, gs, pkt, hex, resp, ret, how,
                   lock, socks, returned, ncalls, last_error, histvars>>

\* send_visca_command, lines 113-114 and 117-118: sock.close(); return True, "OK"
CtlClose(t) ==
    /\ prog = "ctl"
    /\ pc[t] = "close"
    /\ socks' = socks \ {cid[t]}
    /\ ret' = [ret EXCEPT ![t] = Ret(TRUE, "OK")]
    /\ pc' = [pc EXCEPT ![t] = "unlock"]
    /\ UNCHANGED <<opvars, relayvars, prog, seq, bpvars, arg, cid, pay, gs, pkt, hex, resp, how,
                   lock, returned, ncalls, last_cmd, last_error, histvars>>

\* send_visca_command, lines 119-127: the handler records the error, closes
\* sock (when socket.socket() raised there is none: the NameError is
\* swallowed) and returns False with the message
CtlExcept(t) ==
    /\ prog = "ctl"
    /\ pc[t] = "except"
    /\ last_error' = "Error"
    /\ socks' = socks \ {cid[t]}
    /\ ret' = [ret EXCEPT ![t] = Ret(FALSE, "Error")]
    /\ pc' = [pc EXCEPT ![t] = "unlock"]
    /\ UNCHANGED <<opvars, relayvars, prog, seq, bpvars, arg, cid, pay, gs, pkt, hex, resp, how,
                   lock, returned, ncalls, last_cmd, histvars>>

CtlStep(t) ==
    \/ Call(t) \/ Acquire(t) \/ CtlDecode(t) \/ SeqLoad(t) \/ SeqStore(t)
    \/ CtlAssemble(t) \/ CtlMkSock(t) \/ CtlSendTo(t) \/ CtlRecv(t)
    \/ CtlSetLast(t) \/ CtlClose(t) \/ CtlExcept(t) \/ Release(t) \/ Return(t)

NextCtl == (\E t \in Threads : CtlStep(t)) \/ Finalize

\* the command channel of either program
InitCmd == InitApp \/ InitCtl

CmdStep(t) ==
    \/ Call(t) \/ Acquire(t) \/ SeqLoad(t) \/ SeqStore(t) \/ Release(t) \/ Return(t)
    \/ AppDecode(t) \/ AppAssemble(t) \/ AppMkSock(t) \/ AppSendTo(t)
    \/ AppSetLast(t) \/ AppRecv(t) \/ AppClose(t)
    \/ CtlDecode(t) \/ CtlAssemble(t) \/ CtlMkSock(t) \/ CtlSendTo(t) \/ CtlRecv(t)
    \/ CtlSetLast(t) \/ CtlClose(t) \/ CtlExcept(t)

NextCmd == (\E t \in Threads : CmdStep(t)) \/ Finalize

(***************************************************************************)
(* The operations of app.py that send a command: a thread serving a        *)
(* request formats the command string, calls send_cmd and, when send_cmd   *)
(* has returned, writes the state.                                         *)
(***************************************************************************)
\* send_cmd / send_visca_command called with the payload string of the request
SendRaw(t) ==
    /\ req[t].name = "send"
    /\ opc[t] = "idle"
    /\ Enter(t, req[t].p)
    /\ opc' = [opc EXCEPT ![t] = "send"]
    /\ UNCHANGED <<req, snap, opret, state, cam>>

\* the call has returned to the caller of send_cmd / send_visca_command
SendRawRet(t) ==
    /\ req[t].name = "send"
    /\ opc[t] = "send"
    /\ pc[t] = "idle"
    /\ opc' = [opc EXCEPT ![t] = "done"]
    /\ opret' = [opret EXCEPT ![t] = IF ret[t].ok THEN "True" ELSE "False"]
    /\ UNCHANGED <<prog, seq, bpvars, cmdvars, relayvars, req, snap, state, cam>>

\* pan_tilt, lines 123-129
pan_tilt(t) ==
    /\ prog = "app"
    /\ req[t].name = "pan_tilt"
    /\ opc[t] = "idle"
    /\ Enter(t, PanTiltCmd(req[t].n1, req[t].n2, req[t].d1, req[t].d2))
    /\ opc' = [opc EXCEPT ![t] = "send"]
    /\ UNCHANGED <<req, snap, opret, state, cam>>

\* pan_tilt, line 130: state['pan'] = pan_dir
PanTiltSetPan(t) ==
    /\ req[t].name = "pan_tilt"
    /\ opc[t] = "send"
    /\ pc[t] = "idle"
    /\ state' = [state EXCEPT !.pan = req[t].d1]
    /\ opc' = [opc EXCEPT ![t] = "tilt"]
    /\ UNCHANGED <<prog, seq, bpvars, cmdvars, relayvars, req, snap, opret, cam>>

\* pan_tilt, line 131: state['tilt'] = tilt_dir
PanTiltSetTilt(t) ==
    /\ req[t].name = "pan_tilt"
    /\ opc[t] = "tilt"
    /\ state' = [state EXCEPT !.tilt = req[t].d2]
    /\ opc' = [opc EXCEPT ![t] = "done"]
    /\ opret' = [opret EXCEPT ![t] = "None"]
    /\ UNCHANGED <<prog, seq, bpvars, cmdvars, relayvars, req, snap, cam>>

\* zoom, lines 135-142
zoom(t) ==
    /\ prog = "app"
    /\ req[t].name = "zoom"
    /\ opc[t] = "idle"
    /\ Enter(t, ZoomCmd(req[t].d1, req[t].n1))
    /\ opc' = [opc EXCEPT ![t] = "send"]
    /\ UNCHANGED <<req, snap, opret, state, cam>>

\* (a zoom that records the direction only after a successful send)
ZoomSetStateIfSent(t) ==
    /\ req[t].name = "zoom"
    /\ opc[t] = "send"
    /\ pc[t] = "idle"
    /\ state' = [state EXCEPT !.zoom = IF ret[t].ok THEN req[t].d1 ELSE @]
    /\ opc' = [opc EXCEPT ![t] = "done"]
    /\ opret' = [opret EXCEPT ![t] = "None"]
    /\ UNCHANGED <<prog, seq, bpvars, cmdvars, relayvars, req, snap, cam>>

\* zoom, line 143: state['zoom'] = direction
ZoomSetState(t) ==
    /\ req[t].name = "zoom"
    /\ opc[t] = "send"
    /\ pc[t] = "idle"
    /\ state' = [state EXCEPT !.zoom = req[t].d1]
    /\ opc' = [opc EXCEPT ![t] = "done"]
    /\ opret' = [opret EXCEPT ![t] = "None"]
    /\ UNCHANGED <<prog, seq, bpvars, cmdvars, relayvars, req, snap, cam>>

\* focus, lines 147-154
focus(t) ==
    /\ prog = "app"
    /\ req[t].name = "focus"
    /\ opc[t] = "idle"
    /\ Enter(t, FocusCmd(req[t].d1, req[t].n1))
    /\ opc' = [opc EXCEPT ![t] = "send"]
    /\ UNCHANGED <<req, snap, opret, state, cam>>

\* focus, line 155: state['focus'] = direction
FocusSetState(t) ==
    /\ req[t].name = "focus"
    /\ opc[t] = "send"
    /\ pc[t] = "idle"
    /\ state' = [state EXCEPT !.focus = req[t].d1]
    /\ opc' = [opc EXCEPT ![t] = "done"]
    /\ opret' = [opret EXCEPT ![t] = "None"]
    /\ UNCHANGED <<prog, seq, bpvars, cmdvars, relayvars, req, snap, cam>>

\* (the codes with save as "01", as visca_preset_save of ptz11_controller.py has it)
PresetCodeSave01(name) ==
    CASE name = "preset_set" -> "01"
      [] name = "preset_call" -> "02"
      [] name = "preset_delete" -> "00"

\* the command code of a preset operation
PresetCode(name) ==
    CASE name = "preset_set" -> "00"
      [] name = "preset_call" -> "02"
      [] name = "preset_delete" -> "01"

\* preset_set / preset_call / preset_delete, lines 159-160, 167-168, 175-176:
\* with num in 1..255 the command is sent
PresetSend(t) ==
    /\ prog = "app"
    /\ req[t].name \in {"preset_set", "preset_call", "preset_delete"}
    /\ opc[t] = "idle"
    /\ 1 <= req[t].n1 /\ req[t].n1 <= 255
    /\ Enter(t, PresetCmd(PresetCode(req[t].name), req[t].n1))
    /\ opc' = [opc EXCEPT ![t] = "send"]
    /\ UNCHANGED <<req, snap, opret, state, cam>>

\* a rejection that still records the number as the active preset
PresetRejectMarks(t) ==
    /\ prog = "app"
    /\ req[t].name \in {"preset_set", "preset_call", "preset_delete"}
    /\ opc[t] = "idle"
    /\ pc[t] = "idle"
    /\ ~(1 <= req[t].n1 /\ req[t].n1 <= 255)
    /\ opc' = [opc EXCEPT ![t] = "done"]
    /\ opret' = [opret EXCEPT ![t] = "False"]
    /\ state' = [state EXCEPT !.preset_active = req[t].n1]
    /\ UNCHANGED <<prog, seq, bpvars, cmdvars, relayvars, req, snap, cam>>

\* lines 163, 171, 178: with any other num the operation returns False
PresetReject(t) ==
    /\ prog = "app"
    /\ req[t].name \in {"preset_set", "preset_call", "preset_delete"}
    /\ opc[t] = "idle"
    /\ pc[t] = "idle"
    /\ ~(1 <= req[t].n1 /\ req[t].n1 <= 255)
    /\ opc' = [opc EXCEPT ![t] = "done"]
    /\ opret' = [opret EXCEPT ![t] = "False"]
    /\ UNCHANGED <<prog, seq, bpvars, cmdvars, relayvars, req, snap, state, cam>>

\* a preset operation that returns what its send returned
PresetSetActiveBySend(t) ==
    /\ req[t].name \in {"preset_set", "preset_call"}
    /\ opc[t] = "send"
    /\ pc[t] = "idle"
    /\ state' = [state EXCEPT !.preset_active = req[t].n1]
    /\ opc' = [opc EXCEPT ![t] = "done"]
    /\ opret' = [opret EXCEPT ![t] = IF ret[t].ok THEN "True" ELSE "False"]
    /\ UNCHANGED <<prog, seq, bpvars, cmdvars, relayvars, req, snap, cam>>

\* preset_set, preset_call, lines 161-162 and 169-170:
\* state['preset_active'] = num; return True
PresetSetActive(t) ==
    /\ req[t].name \in {"preset_set", "preset_call"}
    /\ opc[t] = "send"
    /\ pc[t] = "idle"
    /\ state' = [state EXCEPT !.preset_active = req[t].n1]
    /\ opc' = [opc EXCEPT ![t] = "done"]
    /\ opret' = [opret EXCEPT ![t] = "True"]
    /\ UNCHANGED <<prog, seq, bpvars, cmdvars, relayvars, req, snap, cam>>

\* preset_delete, line 177: return True
PresetDeleteRet(t) ==
    /\ req[t].name = "preset_delete"
    /\ opc[t] = "send"
    /\ pc[t] = "idle"
    /\ opc' = [opc EXCEPT ![t] = "done"]
    /\ opret' = [opret EXCEPT ![t] = "True"]
    /\ UNCHANGED <<prog, seq, bpvars, cmdvars, relayvars, req, snap, state, cam>>

(***************************************************************************)
(* Stop-all: the /api/stop route of app.py and the /stop route of          *)
(* ptz11_controller.py call three operations one after the other.          *)
(***************************************************************************)
\* visca_pan_tilt, ptz11_controller.py line 131: the command string
ViscaPanTiltCmd(pan_speed, tilt_speed, pan_dir, tilt_dir) ==
    <<"8","1"," ","0","1"," ","0","6"," ","0","1"," ">> \o Hex02(pan_speed) \o <<" ">>
        \o Hex02(tilt_speed) \o <<" ">> \o Text(pan_dir) \o <<" ">> \o Text(tilt_dir)

\* visca_zoom, ptz11_controller.py lines 135-141: the command string
ViscaZoomCmd(zoom_dir, zoom_speed) ==
    LET byte == CASE zoom_dir = "in" -> 32 + (zoom_speed % 16)
                  [] zoom_dir = "out" -> 48 + (zoom_speed % 16)
                  [] OTHER -> 0
    IN  <<"8","1"," ","0","1"," ","0","4"," ","0","7"," ">> \o Hex02(byte)

\* visca_focus, ptz11_controller.py lines 145-151: the command string
ViscaFocusCmd(focus_dir, focus_speed) ==
    LET byte == CASE focus_dir = "near" -> 32 + (focus_speed % 16)
                  [] focus_dir = "far" -> 48 + (focus_speed % 16)
                  [] OTHER -> 0
    IN  <<"8","1"," ","0","1"," ","0","4"," ","0","8"," ">> \o Hex02(byte)

\* the three commands of a stop-all, in the order of the calls
StopCmds(p) ==
    IF p = "app"
    THEN <<PanTiltCmd(0, 0, "03", "03"), ZoomCmd("stop", 0), FocusCmd("stop", 0)>>
    ELSE <<ViscaPanTiltCmd(0, 0, "03", "03"), ViscaZoomCmd("stop", 0),
           ViscaFocusCmd("stop", 0)>>

\* where the route stands when it makes its first, second and third call:
\* app.py has assigned the state fields of the call before, ptz11_controller.py
\* has only returned from it
StopReady(p) ==
    IF p = "app" THEN <<"idle", "stop1t", "stop2z">> ELSE <<"idle", "stop1", "stop2">>

\* (a stop-all that gives up once a send has returned False)
StopGivesUp(t) ==
    /\ req[t].name = "stop"
    /\ \E k \in 1..3 :
           /\ opc[t] = StopReady(prog)[k]
           /\ IF k > 1 /\ ~ret[t].ok
              THEN /\ pc[t] = "idle"
                   /\ opc' = [opc EXCEPT ![t] = "done"]
                   /\ UNCHANGED <<prog, seq, bpvars, cmdvars, relayvars>>
              ELSE /\ Enter(t, StopCmds(prog)[k])
                   /\ opc' = [opc EXCEPT ![t] = <<"stop1", "stop2", "stop3">>[k]]
    /\ UNCHANGED <<req, snap, opret, state, cam>>

\* stop, app.py lines 283-285 and ptz11_controller.py lines 217-219: the
\* next of the three calls enters the send function
stop(t) ==
    /\ req[t].name = "stop"
    /\ \E k \in 1..3 :
           /\ opc[t] = StopReady(prog)[k]
           /\ Enter(t, StopCmds(prog)[k])
           /\ opc' = [opc EXCEPT ![t] = <<"stop1", "stop2", "stop3">>[k]]
    /\ UNCHANGED <<req, snap, opret, state, cam>>

\* app.py: what pan_tilt (lines 130-131), zoom (line 143) and focus (line 155)
\* assign after their send has returned; after the last, stop returns 'OK'
StopSetState(t) ==
    /\ prog = "app"
    /\ req[t].name = "stop"
    /\ pc[t] = "idle"
    /\ \/ /\ opc[t] = "stop1"
          /\ state' = [state EXCEPT !.pan = "03"]
          /\ opc' = [opc EXCEPT ![t] = "stop1p"]
          /\ UNCHANGED opret
       \/ /\ opc[t] = "stop1p"
          /\ state' = [state EXCEPT !.tilt = "03"]
          /\ opc' = [opc EXCEPT ![t] = "stop1t"]
          /\ UNCHANGED opret
       \/ /\ opc[t] = "stop2"
          /\ state' = [state EXCEPT !.zoom = "stop"]
          /\ opc' = [opc EXCEPT ![t] = "stop2z"]
          /\ UNCHANGED opret
       \/ /\ opc[t] = "stop3"
          /\ state' = [state EXCEPT !.focus = "stop"]
          /\ opc' = [opc EXCEPT ![t] = "done"]
          /\ opret' = [opret EXCEPT ![t] = "OK"]
    /\ UNCHANGED <<prog, seq, bpvars, cmdvars, relayvars, req, snap, cam>>

\* ptz11_controller.py line 220: return "STOPPED"
StopRet(t) ==
    /\ prog = "ctl"
    /\ req[t].name = "stop"
    /\ pc[t] = "idle"
    /\ opc[t] = "stop3"
    /\ opc' = [opc EXCEPT ![t] = "done"]
    /\ opret' = [opret EXCEPT ![t] = "STOPPED"]
    /\ UNCHANGED <<prog, seq, bpvars, cmdvars, relayvars, req, snap, state, cam>>

(***************************************************************************)
(* Operations that send no command: the reachability probe, the            *)
(* reconfiguration of app.py, the UDP test of ptz11_controller.py.         *)
(***************************************************************************)
\* (a probe that leaves the flag as it is when the probe itself fails)
CheckCameraKeeps(t) ==
    /\ req[t].name = "probe"
    /\ opc[t] \in {"idle", "done"}
    /\ \E outcome \in {"exit0", "exit1", "raised"} :
           /\ state' = IF outcome = "raised" THEN state
                       ELSE [state EXCEPT !.reachable = (outcome = "exit0")]
           /\ opret' = [opret EXCEPT ![t] = outcome]
    /\ opc' = [opc EXCEPT ![t] = "done"]
    /\ UNCHANGED <<prog, seq, bpvars, cmdvars, relayvars, req, snap, cam>>

\* check_camera, app.py lines 180-191 / check_camera_reachable,
\* ptz11_controller.py lines 47-57: ping exits with 0 or not, or
\* subprocess.run raises (its timeout included); the probe is made again
\* and again: by bg_check every 5 s (app.py lines 1383-1386), by each /test
\* request (ptz11_controller.py line 266)
check_camera(t) ==
    /\ req[t].name = "probe"
    /\ opc[t] \in {"idle", "done"}
    /\ \E outcome \in {"exit0", "exit1", "raised"} :
           /\ state' = [state EXCEPT !.reachable = (outcome = "exit0")]
           /\ opret' = [opret EXCEPT ![t] = outcome]
    /\ opc' = [opc EXCEPT ![t] = "done"]
    /\ UNCHANGED <<prog, seq, bpvars, cmdvars, relayvars, req, snap, cam>>

\* config, lines 343-347: GET returns the configuration
ConfigGet(t) ==
    /\ prog = "app"
    /\ req[t].name = "config_get"
    /\ opc[t] = "idle"
    /\ opc' = [opc EXCEPT ![t] = "done"]
    /\ opret' = [opret EXCEPT ![t] = "200"]
    /\ UNCHANGED <<prog, seq, bpvars, cmdvars, relayvars, req, snap, state, cam>>

\* config, line 333: CAM_IP = request.json.get('cam_ip', CAM_IP); without a
\* JSON body the expression raises and the handler answers 400
ConfigIp(t) ==
    /\ prog = "app"
    /\ req[t].name = "config_post"
    /\ opc[t] = "idle"
    /\ IF req[t].d1 = "nojson"
       THEN /\ opc' = [opc EXCEPT ![t] = "done"]
            /\ opret' = [opret EXCEPT ![t] = "400"]
            /\ cam' = cam
       ELSE /\ cam' = [cam EXCEPT !.ip = IF req[t].d1 = "absent" THEN @ ELSE req[t].d1]
            /\ opc' = [opc EXCEPT ![t] = "port"]
            /\ opret' = opret
    /\ UNCHANGED <<prog, seq, bpvars, cmdvars, relayvars, req, snap, state>>

\* config, line 334: CAM_PORT = int(request.json.get('cam_port', CAM_PORT));
\* int() raises on text that is no number and the handler answers 400
ConfigPort(t) ==
    /\ prog = "app"
    /\ req[t].name = "config_post"
    /\ opc[t] = "port"
    /\ IF req[t].d2 = "bad"
       THEN /\ opc' = [opc EXCEPT ![t] = "done"]
            /\ opret' = [opret EXCEPT ![t] = "400"]
            /\ cam' = cam
       ELSE /\ cam' = [cam EXCEPT !.port = IF req[t].d2 = "absent" THEN @ ELSE req[t].d2]
            /\ opc' = [opc EXCEPT ![t] = "rtsp"]
            /\ opret' = opret
    /\ UNCHANGED <<prog, seq, bpvars, cmdvars, relayvars, req, snap, state>>

\* config, lines 335-338: RTSP_URL = ...; save_config(); success
ConfigRtsp(t) ==
    /\ prog = "app"
    /\ req[t].name = "config_post"
    /\ opc[t] = "rtsp"
    /\ cam' = [cam EXCEPT !.rtsp = IF req[t].d3 = "absent" THEN @ ELSE req[t].d3]
    /\ opc' = [opc EXCEPT ![t] = "done"]
    /\ opret' = [opret EXCEPT ![t] = "200"]
    /\ UNCHANGED <<prog, seq, bpvars, cmdvars, relayvars, req, snap, state>>

\* test_udp_connection, line 63: the fixed test packet, its sequence field 1
TestPacket == <<1, 0, 0, 5, 0, 0, 0, 1, 129, 1, 4, 0, 2, 255>>

\* test_udp_connection, lines 59-77: no lock is taken and the counter is not
\* used.  socket() raises; or sendto raises, or recvfrom raises another error
\* than the timeout, and the handler returns False without closing the socket;
\* or a reply or the timeout comes, the socket is closed and True is returned
test_udp_connection(t) ==
    /\ prog = "ctl"
    /\ req[t].name = "udptest"
    /\ opc[t] = "idle"
    /\ ncalls' = ncalls + 1
    /\ \E outcome \in {"socket", "sendto", "recv", "reply", "timeout"} :
           /\ wire' = IF outcome \in {"socket", "sendto"} THEN wire
                      ELSE Append(wire, TestPacket)
           /\ dest' = IF outcome \in {"socket", "sendto"} THEN dest
                      ELSE Append(dest, Endpoint)
           /\ socks' = IF outcome \in {"sendto", "recv"} THEN socks \cup {ncalls + 1}
                       ELSE socks
           /\ opret' = [opret EXCEPT ![t] = IF outcome \in {"reply", "timeout"}
                                             THEN "True" ELSE "False"]
    /\ returned' = returned \cup {ncalls + 1}
    /\ opc' = [opc EXCEPT ![t] = "done"]
    /\ UNCHANGED <<prog, seq, bpvars, thvars, lock, last_cmd, last_error, built, evlog,
                   relayvars, req, snap, state, cam>>

(***************************************************************************)
(* The /api/status route of app.py, and a thread that serves one           *)
(* /api/move request after the other.                                      *)
(***************************************************************************)
\* status, line 359: 'pan': state['pan'] is evaluated
StatusReadPan(t) ==
    /\ prog = "app"
    /\ req[t].name = "status"
    /\ opc[t] = "idle"
    /\ snap' = [snap EXCEPT ![t].pan = state.pan]
    /\ opc' = [opc EXCEPT ![t] = "read"]
    /\ UNCHANGED <<prog, seq, bpvars, cmdvars, relayvars, req, opret, state, cam>>

\* status, line 360: 'tilt': state['tilt'] is evaluated; the response is made
StatusReadTilt(t) ==
    /\ prog = "app"
    /\ req[t].name = "status"
    /\ opc[t] = "read"
    /\ snap' = [snap EXCEPT ![t].tilt = state.tilt]
    /\ opc' = [opc EXCEPT ![t] = "done"]
    /\ opret' = [opret EXCEPT ![t] = "json"]
    /\ UNCHANGED <<prog, seq, bpvars, cmdvars, relayvars, req, state, cam>>

\* the /api/move requests of the joystick: left and up, right and down,
\* at speed 10
MoveReqs ==
    {Req("pan_tilt", "01", "01", "", 10, 10, <<>>), Req("pan_tilt", "02", "02", "", 10, 10, <<>>)}

\* move, lines 272-279: the thread that has answered a move serves the next
MoveAgain(t) ==
    /\ prog = "app"
    /\ req[t].name = "pan_tilt"
    /\ opc[t] = "done"
    /\ ncalls < MaxCalls
    /\ \E r \in MoveReqs : req' = [req EXCEPT ![t] = r]
    /\ opc' = [opc EXCEPT ![t] = "idle"]
    /\ opret' = [opret EXCEPT ![t] = "none"]
    /\ UNCHANGED <<prog, seq, bpvars, cmdvars, relayvars, state, cam, snap>>

\* the steps of send_cmd once entered
SendStepApp(t) ==
    \/ Acquire(t) \/ SeqLoad(t) \/ SeqStore(t) \/ Release(t) \/ Return(t)
    \/ AppDecode(t) \/ AppAssemble(t) \/ AppMkSock(t) \/ AppSendTo(t)
    \/ AppSetLast(t) \/ AppRecv(t) \/ AppClose(t)

\* app.py serving move requests on one thread and a status request on another
InitStatus ==
    /\ prog = "app"
    /\ seq = SeqVal(0, 0)
    /\ bp_in = NoneText /\ bp_before = seq /\ bp_out = Unset
    /\ CmdIdle
    /\ viewers = {}
    /\ RelayIdle
    /\ OpsStart
    /\ \E r \in MoveReqs :
           req = [t \in {"t1", "t2"} |->
                     IF t = "t1" THEN r ELSE Req("status", "", "", "", 0, 0, <<>>)]

NextStatus ==
    \/ \E t \in Threads :
           \/ pan_tilt(t) \/ PanTiltSetPan(t) \/ PanTiltSetTilt(t) \/ MoveAgain(t)
           \/ StatusReadPan(t) \/ StatusReadTilt(t)
           \/ SendStepApp(t)
    \/ Finalize

\* the steps of send_visca_command once entered
SendStepCtl(t) ==
    \/ Acquire(t) \/ SeqLoad(t) \/ SeqStore(t) \/ Release(t) \/ Return(t)
    \/ CtlDecode(t) \/ CtlAssemble(t) \/ CtlMkSock(t) \/ CtlSendTo(t) \/ CtlRecv(t)
    \/ CtlSetLast(t) \/ CtlClose(t) \/ CtlExcept(t)

\* ptz11_controller.py serving a command on one thread and a /test request
\* (lines 264-268) on another
InitTest ==
    /\ prog = "ctl"
    /\ seq = SeqVal(0, 1)
    /\ bp_in = NoneText /\ bp_before = seq /\ bp_out = Unset
    /\ CmdIdle
    /\ viewers = {}
    /\ RelayIdle
    /\ OpsStart
    /\ \E p \in CmdPayloads :
           req = [t \in {"t1", "t2"} |->
                     IF t = "t1" THEN Req("send", "", "", "", 0, 0, p)
                     ELSE Req("udptest", "", "", "", 0, 0, <<>>)]

NextTest ==
    \/ \E t \in Threads :
           \/ SendRaw(t) \/ SendRawRet(t)
           \/ test_udp_connection(t)
           \/ SendStepCtl(t)
    \/ Finalize

(***************************************************************************)
(* gen_frames of app.py, one generator per consumer of /video.             *)
(***************************************************************************)
\* the consumer asks for the first chunk: lines 197-198
Start(v) ==
    /\ v \in viewers
    /\ gpc[v] = "off"
    /\ gpc' = [gpc EXCEPT ![v] = "top"]
    /\ cap' = [cap EXCEPT ![v] = "None"]
    /\ error_count' = [error_count EXCEPT ![v] = 0]
    /\ UNCHANGED <<prog, seq, bpvars, cmdvars, opvars, acctvars, viewers, frame, nfail, it, stvars, now>>

\* lines 202-207: there is no capture or it is not opened: a new one is made,
\* which is opened or not, and the failure counter is reset
AppOpen(v) ==
    /\ prog = "app"
    /\ gpc[v] = "top"
    /\ cap[v] # "open"
    /\ it' = [it EXCEPT ![v] = NewIt]
    /\ \E h \in {"open", "dead"} : cap' = [cap EXCEPT ![v] = h]
    /\ error_count' = [error_count EXCEPT ![v] = 0]
    /\ nfail' = [nfail EXCEPT ![v] = 0]
    /\ gpc' = [gpc EXCEPT ![v] = "read"]
    /\ UNCHANGED <<prog, seq, bpvars, cmdvars, opvars, acctvars, viewers, frame, stvars, now>>

\* lines 202-204: cv2.VideoCapture raises, so cap keeps its value (cap.set,
\* line 205, reports a failure by returning False)
AppOpenExc(v) ==
    /\ prog = "app"
    /\ gpc[v] = "top"
    /\ cap[v] # "open"
    /\ it' = [it EXCEPT ![v] = NewIt]
    /\ gpc' = [gpc EXCEPT ![v] = "exc"]
    /\ UNCHANGED <<prog, seq, bpvars, cmdvars, opvars, acctvars, viewers, cap, error_count, frame, nfail,
                   stvars, now>>

\* line 202: the capture is opened: the iteration goes on to the read
AppKeep(v) ==
    /\ prog = "app"
    /\ gpc[v] = "top"
    /\ cap[v] = "open"
    /\ it' = [it EXCEPT ![v] = NewIt]
    /\ gpc' = [gpc EXCEPT ![v] = "read"]
    /\ UNCHANGED <<prog, seq, bpvars, cmdvars, opvars, acctvars, viewers, cap, error_count, frame, nfail,
                   stvars, now>>

\* (an accounting that publishes the count before the frame just read is added)
AppReadOkStale(v) ==
    /\ prog = "app"
    /\ gpc[v] = "read"
    /\ cap[v] = "open"
    /\ stream_frame_count < MaxFrames \/ now - stream_last_time >= TicksPerSec
    /\ error_count' = [error_count EXCEPT ![v] = 0]
    /\ nfail' = [nfail EXCEPT ![v] = 0]
    /\ stream_status' = "live"
    /\ IF now - stream_last_time >= TicksPerSec
       THEN /\ stream_fps' = stream_frame_count
            /\ stream_frame_count' = 1
            /\ stream_last_time' = now
            /\ pub' = [by |-> v, at |-> now, prev |-> stream_last_time,
                       v |-> stream_fps', r |-> [wreads EXCEPT ![v] = @ + 1],
                       gap |-> gap]
            /\ wreads' = [wreads EXCEPT ![v] = 0]
            /\ gap' = FALSE
       ELSE /\ stream_frame_count' = stream_frame_count + 1
            /\ wreads' = [wreads EXCEPT ![v] = @ + 1]
            /\ UNCHANGED <<stream_fps, stream_last_time, pub, gap>>
    /\ fresh' = TRUE
    /\ frame' = [frame EXCEPT ![v] = "frame"]
    /\ it' = [it EXCEPT ![v].rd = "ok", ![v].k = nfail[v]]
    /\ gpc' = [gpc EXCEPT ![v] = "encode"]
    /\ UNCHANGED <<prog, seq, bpvars, cmdvars, opvars, viewers, cap, now>>

\* lines 209 and 230-240: the read gives a frame; frame-rate accounting
AppReadOk(v) ==
    /\ prog = "app"
    /\ gpc[v] = "read"
    /\ cap[v] = "open"
    /\ stream_frame_count < MaxFrames \/ now - stream_last_time >= TicksPerSec
    /\ error_count' = [error_count EXCEPT ![v] = 0]
    /\ nfail' = [nfail EXCEPT ![v] = 0]
    /\ stream_status' = "live"
    /\ IF now - stream_last_time >= TicksPerSec
       THEN /\ stream_fps' = stream_frame_count + 1
            /\ stream_frame_count' = 0
            /\ stream_last_time' = now
            /\ pub' = [by |-> v, at |-> now, prev |-> stream_last_time,
                       v |-> stream_fps', r |-> [wreads EXCEPT ![v] = @ + 1],
                       gap |-> gap]
            /\ wreads' = [wreads EXCEPT ![v] = 0]
            /\ gap' = FALSE
       ELSE /\ stream_frame_count' = stream_frame_count + 1
            /\ wreads' = [wreads EXCEPT ![v] = @ + 1]
            /\ UNCHANGED <<stream_fps, stream_last_time, pub, gap>>
    /\ fresh' = TRUE
    /\ frame' = [frame EXCEPT ![v] = "frame"]
    /\ it' = [it EXCEPT ![v].rd = "ok", ![v].k = nfail[v]]
    /\ gpc' = [gpc EXCEPT ![v] = "encode"]
    /\ UNCHANGED <<prog, seq, bpvars, cmdvars, opvars, viewers, cap, now>>

\* lines 209-213: the read fails (always, on a handle that is not opened)
AppReadFailNoCount(v) ==
    /\ prog = "app"
    /\ gpc[v] = "read"
    /\ error_count[v] < MaxFails
    /\ stream_status' = "buffering"
    /\ nfail' = [nfail EXCEPT ![v] = @ + 1]
    /\ it' = [it EXCEPT ![v].rd = "fail", ![v].k = nfail[v] + 1]
    /\ gpc' = [gpc EXCEPT ![v] = "thresh"]
    /\ UNCHANGED <<prog, seq, bpvars, cmdvars, opvars, acctvars, viewers, cap, frame, error_count,
                   stream_fps, stream_frame_count, stream_last_time, now>>

AppReadFail(v) ==
    /\ prog = "app"
    /\ gpc[v] = "read"
    /\ error_count[v] < MaxFails
    /\ error_count' = [error_count EXCEPT ![v] = @ + 1]
    /\ stream_status' = "buffering"
    /\ nfail' = [nfail EXCEPT ![v] = @ + 1]
    /\ it' = [it EXCEPT ![v].rd = "fail", ![v].k = nfail[v] + 1]
    /\ gpc' = [gpc EXCEPT ![v] = "thresh"]
    /\ UNCHANGED <<prog, seq, bpvars, cmdvars, opvars, acctvars, viewers, cap, frame,
                   stream_fps, stream_frame_count, stream_last_time, now>>

\* line 209: cap.read() raises
AppReadExc(v) ==
    /\ prog = "app"
    /\ gpc[v] = "read"
    /\ it' = [it EXCEPT ![v].rd = "exc"]
    /\ gpc' = [gpc EXCEPT ![v] = "exc"]
    /\ UNCHANGED <<prog, seq, bpvars, cmdvars, opvars, acctvars, viewers, cap, error_count, frame,
                   nfail, stvars, now>>

\* lines 215-229: past the threshold a placeholder frame is made and the
\* status is 'offline'; up to it the loop sleeps 0.1 s and continues
AppThreshAtLeast(v) ==
    /\ prog = "app"
    /\ gpc[v] = "thresh"
    /\ IF error_count[v] >= Threshold
       THEN /\ frame' = [frame EXCEPT ![v] = "placeholder"]
            /\ stream_status' = "offline"
            /\ gpc' = [gpc EXCEPT ![v] = "encode"]
       ELSE /\ gpc' = [gpc EXCEPT ![v] = "top"]
            /\ UNCHANGED <<frame, stream_status>>
    /\ UNCHANGED <<prog, seq, bpvars, cmdvars, opvars, acctvars, viewers, cap, error_count, nfail, it,
                   stream_fps, stream_frame_count, stream_last_time, now>>

AppThresh(v) ==
    /\ prog = "app"
    /\ gpc[v] = "thresh"
    /\ IF error_count[v] > Threshold
       THEN /\ frame' = [frame EXCEPT ![v] = "placeholder"]
            /\ stream_status' = "offline"
            /\ gpc' = [gpc EXCEPT ![v] = "encode"]
       ELSE /\ gpc' = [gpc EXCEPT ![v] = "top"]
            /\ UNCHANGED <<frame, stream_status>>
    /\ UNCHANGED <<prog, seq, bpvars, cmdvars, opvars, acctvars, viewers, cap, error_count, nfail, it,
                   stream_fps, stream_frame_count, stream_last_time, now>>

\* a relay that reports a frame rate of 0 when it sends a placeholder
AppEncodeOkZeroFps(v) ==
    /\ prog = "app"
    /\ gpc[v] = "encode"
    /\ it' = [it EXCEPT ![v].enc = "ok", ![v].chunks = @ + 1, ![v].kind = frame[v],
                        ![v].out = Chunk(Jpeg(frame[v]))]
    /\ gpc' = [gpc EXCEPT ![v] = "yield"]
    /\ stream_fps' = IF frame[v] = "placeholder" THEN 0 ELSE stream_fps
    /\ UNCHANGED <<prog, seq, bpvars, cmdvars, opvars, acctvars, viewers, cap, error_count, frame, nfail,
                   stream_status, stream_frame_count, stream_last_time, now>>

\* lines 243-253: resize and imencode succeed and the chunk is yielded
AppEncodeOk(v) ==
    /\ prog = "app"
    /\ gpc[v] = "encode"
    /\ it' = [it EXCEPT ![v].enc = "ok", ![v].chunks = @ + 1, ![v].kind = frame[v],
                        ![v].out = Chunk(Jpeg(frame[v]))]
    /\ gpc' = [gpc EXCEPT ![v] = "yield"]
    /\ UNCHANGED <<prog, seq, bpvars, cmdvars, opvars, acctvars, viewers, cap, error_count, frame, nfail,
                   stvars, now>>

\* lines 246-252: imencode reports failure: nothing is yielded
AppEncodeFail(v) ==
    /\ prog = "app"
    /\ gpc[v] = "encode"
    /\ it' = [it EXCEPT ![v].enc = "fail"]
    /\ gpc' = [gpc EXCEPT ![v] = "top"]
    /\ UNCHANGED <<prog, seq, bpvars, cmdvars, opvars, acctvars, viewers, cap, error_count, frame, nfail,
                   stvars, now>>

\* lines 243-250: resize or imencode raises
AppEncodeExc(v) ==
    /\ prog = "app"
    /\ gpc[v] = "encode"
    /\ it' = [it EXCEPT ![v].enc = "exc"]
    /\ gpc' = [gpc EXCEPT ![v] = "exc"]
    /\ UNCHANGED <<prog, seq, bpvars, cmdvars, opvars, acctvars, viewers, cap, error_count, frame, nfail,
                   stvars, now>>

\* lines 255-257: the handler logs, sleeps 1 s, and the loop goes on
AppExcLeaves(v) ==
    /\ prog = "app"
    /\ gpc[v] = "exc"
    /\ gpc' = [gpc EXCEPT ![v] = "exit"]
    /\ UNCHANGED <<prog, seq, bpvars, cmdvars, opvars, acctvars, viewers, cap, error_count, frame, nfail, it,
                   stvars, now>>

AppExc(v) ==
    /\ prog = "app"
    /\ gpc[v] = "exc"
    /\ gpc' = [gpc EXCEPT ![v] = "top"]
    /\ UNCHANGED <<prog, seq, bpvars, cmdvars, opvars, acctvars, viewers, cap, error_count, frame, nfail, it,
                   stvars, now>>

\* the consumer asks for the next chunk: the generator resumes after its yield
Resume(v) ==
    /\ gpc[v] = "yield"
    /\ gpc' = [gpc EXCEPT ![v] = "top"]
    /\ UNCHANGED <<prog, seq, bpvars, cmdvars, opvars, acctvars, viewers, cap, error_count, frame, nfail, it,
                   stvars, now>>

\* the consumer stops asking: the generator, suspended at its yield, is closed
Close(v) ==
    /\ gpc[v] = "yield"
    /\ gpc' = [gpc EXCEPT ![v] = "closed"]
    /\ UNCHANGED <<prog, seq, bpvars, cmdvars, opvars, acctvars, viewers, cap, error_count, frame, nfail, it,
                   stvars, now>>

\* time passes
Tick ==
    /\ now < MaxTime
    /\ now' = now + 1
    /\ gap' = (gap \/ ~fresh)
    /\ fresh' = FALSE
    /\ UNCHANGED <<prog, seq, bpvars, cmdvars, opvars, viewers, gfvars, stvars, wreads, pub>>

(***************************************************************************)
(* gen_frames of ptz11_controller.py.                                      *)
(***************************************************************************)
\* lines 176-179: the capture is opened once, while cap is None
CtlTop(v) ==
    /\ prog = "ctl"
    /\ gpc[v] = "top"
    /\ it' = [it EXCEPT ![v] = NewIt]
    /\ IF cap[v] = "None"
       THEN \/ /\ \E h \in {"open", "dead"} : cap' = [cap EXCEPT ![v] = h]
               /\ gpc' = [gpc EXCEPT ![v] = "read"]
               /\ nfail' = [nfail EXCEPT ![v] = 0]
            \/ /\ gpc' = [gpc EXCEPT ![v] = "exc"]
               /\ UNCHANGED <<cap, nfail>>
       ELSE /\ gpc' = [gpc EXCEPT ![v] = "read"]
            /\ UNCHANGED <<cap, nfail>>
    /\ UNCHANGED <<prog, seq, bpvars, cmdvars, opvars, acctvars, viewers, error_count, frame,
                   stvars, now>>

\* lines 181-185: a frame, or on failure the 'Stream Unavailable' frame, or
\* cap.read() raises
CtlRead(v) ==
    /\ prog = "ctl"
    /\ gpc[v] = "read"
    /\ \/ /\ cap[v] = "open"
          /\ frame' = [frame EXCEPT ![v] = "frame"]
          /\ it' = [it EXCEPT ![v].rd = "ok"]
          /\ nfail' = [nfail EXCEPT ![v] = 0]
          /\ gpc' = [gpc EXCEPT ![v] = "encode"]
       \/ /\ frame' = [frame EXCEPT ![v] = "placeholder"]
          /\ it' = [it EXCEPT ![v].rd = "fail"]
          /\ nfail' = [nfail EXCEPT ![v] = IF @ < MaxFails THEN @ + 1 ELSE @]
          /\ gpc' = [gpc EXCEPT ![v] = "encode"]
       \/ /\ it' = [it EXCEPT ![v].rd = "exc"]
          /\ gpc' = [gpc EXCEPT ![v] = "exc"]
          /\ UNCHANGED <<frame, nfail>>
    /\ UNCHANGED <<prog, seq, bpvars, cmdvars, opvars, acctvars, viewers, cap, error_count,
                   stvars, now>>

\* lines 187-192: resize and imencode; the chunk is yielded when imencode
\* reports success; either call may raise
CtlEncode(v) ==
    /\ prog = "ctl"
    /\ gpc[v] = "encode"
    /\ \/ /\ it' = [it EXCEPT ![v].enc = "ok", ![v].chunks = @ + 1, ![v].kind = frame[v],
                              ![v].out = Chunk(Jpeg(frame[v]))]
          /\ gpc' = [gpc EXCEPT ![v] = "yield"]
       \/ /\ it' = [it EXCEPT ![v].enc = "fail"]
          /\ gpc' = [gpc EXCEPT ![v] = "top"]
       \/ /\ it' = [it EXCEPT ![v].enc = "exc"]
          /\ gpc' = [gpc EXCEPT ![v] = "exc"]
    /\ UNCHANGED <<prog, seq, bpvars, cmdvars, opvars, acctvars, viewers, cap, error_count, frame, nfail,
                   stvars, now>>

\* lines 194-196: the handler logs, sleeps 1 s, and the loop goes on
CtlExc(v) ==
    /\ prog = "ctl"
    /\ gpc[v] = "exc"
    /\ gpc' = [gpc EXCEPT ![v] = "top"]
    /\ UNCHANGED <<prog, seq, bpvars, cmdvars, opvars, acctvars, viewers, cap, error_count, frame, nfail, it,
                   stvars, now>>

\* one step of the generator's own code
AppLoop(v) ==
    \/ AppOpen(v) \/ AppOpenExc(v) \/ AppKeep(v)
    \/ AppReadOk(v) \/ AppReadFail(v) \/ AppReadExc(v) \/ AppThresh(v)
    \/ AppEncodeOk(v) \/ AppEncodeFail(v) \/ AppEncodeExc(v) \/ AppExc(v)

CtlLoop(v) == CtlTop(v) \/ CtlRead(v) \/ CtlEncode(v) \/ CtlExc(v)

\* one consumer of the stream, of either program
InitRelay ==
    /\ prog \in {"app", "ctl"}
    /\ seq = (IF prog = "app" THEN SeqVal(0, 0) ELSE SeqVal(0, 1))
    /\ bp_in = NoneText /\ bp_before = seq /\ bp_out = Unset
    /\ CmdIdle
    /\ viewers = {"v1"}
    /\ RelayIdle
    /\ OpsIdle

\* app.py with a source that never yields a frame: the capture may open or
\* not, every read fails, nothing raises and the encoder works
InitDead ==
    /\ prog = "app"
    /\ seq = SeqVal(0, 0)
    /\ bp_in = NoneText /\ bp_before = seq /\ bp_out = Unset
    /\ CmdIdle
    /\ viewers = {"v1"}
    /\ RelayIdle
    /\ OpsIdle

\* app.py with two consumers of the stream, each served by a generator of
\* its own (line 267), and a source that delivers: the captures open, the
\* reads give frames, nothing raises and the encoder works
InitTwo ==
    /\ prog = "app"
    /\ seq = SeqVal(0, 0)
    /\ bp_in = NoneText /\ bp_before = seq /\ bp_out = Unset
    /\ CmdIdle
    /\ viewers = {"v1", "v2"}
    /\ RelayIdle
    /\ OpsIdle

TwoLoop ==
    \E v \in Viewers :
        \/ Start(v) \/ Resume(v)
        \/ AppOpen(v) \/ AppKeep(v) \/ AppReadOk(v) \/ AppEncodeOk(v)

NextTwo == TwoLoop \/ Tick

DeadLoop ==
    \E v \in Viewers :
        \/ Start(v) \/ Resume(v)
        \/ AppOpen(v) \/ AppKeep(v) \/ AppReadFail(v) \/ AppThresh(v) \/ AppEncodeOk(v)

NextDead == DeadLoop \/ Tick

NextRelay ==
    \/ \E v \in Viewers :
           \/ Start(v) \/ Resume(v) \/ Close(v)
           \/ AppOpen(v) \/ AppOpenExc(v) \/ AppKeep(v)
           \/ AppReadOk(v) \/ AppReadFail(v) \/ AppReadExc(v) \/ AppThresh(v)
           \/ AppEncodeOk(v) \/ AppEncodeFail(v) \/ AppEncodeExc(v) \/ AppExc(v)
           \/ CtlTop(v) \/ CtlRead(v) \/ CtlEncode(v) \/ CtlExc(v)
    \/ Tick

(***************************************************************************)
(* One request at a time: a process that serves a single request, drawn    *)
(* from the requests its HTTP interface accepts.                           *)
(***************************************************************************)
SpeedArgs == (0 - 2)..MaxSpeed

NumArgs == (0 - 1)..MaxNum

\* send_cmd / send_visca_command on a payload string
RawReqs ==
    {Req("send", "", "", "", 0, 0, p) : p \in ShortInputs \cup LongInputs \cup CmdPayloads}

\* speeds at the two ends of the range 0..24 and just outside it
EdgeSpeeds == {0 - 1, 0, 24, 25}

\* every speed on one axis with an edge speed on the other
PanTiltReqs ==
    {Req("pan_tilt", pd, td, "", ps, ts, <<>>) :
        pd \in {"01", "ZZ"}, td \in {"02", "03"},
        ps \in SpeedArgs, ts \in EdgeSpeeds} \cup
    {Req("pan_tilt", pd, td, "", ps, ts, <<>>) :
        pd \in {"01", "ZZ"}, td \in {"02", "03"},
        ps \in EdgeSpeeds, ts \in SpeedArgs}

ZoomReqs == {Req("zoom", d, "", "", sp, 0, <<>>) : d \in {"in", "out", "stop"}, sp \in SpeedArgs}

FocusReqs == {Req("focus", d, "", "", sp, 0, <<>>) : d \in {"near", "far", "stop"}, sp \in SpeedArgs}

PresetReqs ==
    {Req(name, "", "", "", num, 0, <<>>) :
        name \in {"preset_set", "preset_call", "preset_delete"}, num \in NumArgs}

ConfigReqs ==
    {Req("config_get", "", "", "", 0, 0, <<>>)} \cup
    {Req("config_post", ip, port, rtsp, 0, 0, <<>>) :
        ip \in {"absent", "10.0.0.2"}, port \in {"absent", "1234", "bad"},
        rtsp \in {"absent", "rtsp://10.0.0.2/1"}} \cup
    {Req("config_post", "nojson", "", "", 0, 0, <<>>)}

OtherReqs(name) == {Req(name, "", "", "", 0, 0, <<>>)}

RequestsOf(p) ==
    IF p = "app"
    THEN RawReqs \cup PanTiltReqs \cup ZoomReqs \cup FocusReqs \cup PresetReqs
             \cup ConfigReqs \cup OtherReqs("probe") \cup OtherReqs("video")
             \cup OtherReqs("stop")
    ELSE RawReqs \cup OtherReqs("probe") \cup OtherReqs("udptest") \cup OtherReqs("video")
             \cup OtherReqs("stop")

\* POST /api/config requests
ConfigPosts == {r \in ConfigReqs : r.name = "config_post"}

\* app.py serving two requests at the same time (app.run(threaded=True),
\* line 1391): two moves, a stop-all and a move, or a move and a POST
\* /api/config
InitPair ==
    /\ prog = "app"
    /\ seq = SeqVal(0, 0)
    /\ bp_in = NoneText /\ bp_before = seq /\ bp_out = Unset
    /\ CmdIdle
    /\ viewers = {}
    /\ RelayIdle
    /\ OpsStart
    /\ \E r1 \in MoveReqs \cup OtherReqs("stop") :
       \E r2 \in MoveReqs \cup (IF r1.name = "stop" THEN {} ELSE ConfigPosts) :
           req = [t \in {"t1", "t2"} |-> IF t = "t1" THEN r1 ELSE r2]

NextPair ==
    \/ \E t \in Threads :
           \/ pan_tilt(t) \/ PanTiltSetPan(t) \/ PanTiltSetTilt(t)
           \/ stop(t) \/ StopSetState(t)
           \/ ConfigIp(t) \/ ConfigPort(t) \/ ConfigRtsp(t)
           \/ SendStepApp(t)
    \/ Finalize

\* the counter at process start and, for the payloads of CmdPayloads, also
\* just before the wrap
SeqStartsOne(p, r) ==
    {IF p = "app" THEN SeqVal(0, 0) ELSE SeqVal(0, 1)} \cup
    (IF r.name = "send" /\ r.p \in CmdPayloads THEN {SeqVal(Half - 1, Half - 1)} ELSE {})

InitOne ==
    /\ prog \in {"app", "ctl"}
    /\ \E r \in RequestsOf(prog) :
           /\ req = [t \in {"t1", "t2"} |-> IF t = "t1" THEN r ELSE NoReq]
           /\ viewers = IF r.name = "video" THEN {"v1"} ELSE {}
           /\ seq \in SeqStartsOne(prog, r)
    /\ bp_in = NoneText /\ bp_before = seq /\ bp_out = Unset
    /\ CmdIdle
    /\ OpsStart
    /\ RelayIdle

\* the steps of send_cmd / send_visca_command once entered
SendStep(t) ==
    \/ Acquire(t) \/ SeqLoad(t) \/ SeqStore(t) \/ Release(t) \/ Return(t)
    \/ AppDecode(t) \/ AppAssemble(t) \/ AppMkSock(t) \/ AppSendTo(t)
    \/ AppSetLast(t) \/ AppRecv(t) \/ AppClose(t)
    \/ CtlDecode(t) \/ CtlAssemble(t) \/ CtlMkSock(t) \/ CtlSendTo(t) \/ CtlRecv(t)
    \/ CtlSetLast(t) \/ CtlClose(t) \/ CtlExcept(t)

OpStep(t) ==
    \/ SendRaw(t) \/ SendRawRet(t)
    \/ pan_tilt(t) \/ PanTiltSetPan(t) \/ PanTiltSetTilt(t)
    \/ zoom(t) \/ ZoomSetState(t) \/ focus(t) \/ FocusSetState(t)
    \/ PresetSend(t) \/ PresetReject(t) \/ PresetSetActive(t) \/ PresetDeleteRet(t)
    \/ check_camera(t) \/ ConfigGet(t) \/ ConfigIp(t) \/ ConfigPort(t) \/ ConfigRtsp(t)
    \/ test_udp_connection(t)
    \/ stop(t) \/ StopSetState(t) \/ StopRet(t)

NextOne ==
    \/ \E t \in Threads : OpStep(t) \/ SendStep(t)
    \/ Finalize
    \/ NextRelay

(***************************************************************************)
(* The packet-builder harness: one call of the builder on an input.        *)
(***************************************************************************)
InitBuild ==
    /\ prog \in {"app", "ctl"}
    /\ seq \in (IF prog = "app" THEN SeqStartsApp ELSE SeqStartsCtl) \cup SeqStartsBuild
    /\ bp_in \in ShortInputs \cup LongInputs
    /\ bp_before = seq
    /\ bp_out = Unset
    /\ CmdIdle
    /\ viewers = {}
    /\ RelayIdle
    /\ OpsIdle

BuildApp ==
    /\ prog = "app"
    /\ bp_out = Unset
    /\ LET r == visca_packet(bp_in, seq)
       IN  /\ bp_out' = r.pkt
           /\ seq' = r.seq
    /\ UNCHANGED <<prog, bp_in, bp_before, cmdvars, relayvars, opvars>>

BuildCtl ==
    /\ prog = "ctl"
    /\ bp_out = Unset
    /\ LET r == build_visca_packet(bp_in, seq)
       IN  /\ bp_out' = r.pkt
           /\ seq' = r.seq
    /\ UNCHANGED <<prog, bp_in, bp_before, cmdvars, relayvars, opvars>>

NextBuild == BuildApp \/ BuildCtl

vars == <<prog, seq, bpvars, cmdvars, relayvars, opvars>>

SpecBuild == InitBuild /\ [][NextBuild]_vars

SpecApp == InitApp /\ [][NextApp]_vars

SpecCtl == InitCtl /\ [][NextCtl]_vars

SpecCmd == InitCmd /\ [][NextCmd]_vars

SpecRelay == InitRelay /\ [][NextRelay]_vars

SpecTwo == InitTwo /\ [][NextTwo]_vars

SpecStatus == InitStatus /\ [][NextStatus]_vars

SpecTest == InitTest /\ [][NextTest]_vars

SpecPair == InitPair /\ [][NextPair]_vars

SpecOne == InitOne /\ [][NextOne]_vars

\* the generator's thread and its consumer are scheduled fairly
LiveDead == InitDead /\ [][NextDead]_vars /\ WF_vars(DeadLoop)

(***************************************************************************)
(* C2: the layout of a built packet.                                       *)
(***************************************************************************)
\* the value of a hex digit, written out
RefDigit ==
    [c \in {"0","1","2","3","4","5","6","7","8","9",
            "a","b","c","d","e","f","A","B","C","D","E","F"} |->
        CASE c = "0" -> 0 [] c = "1" -> 1 [] c = "2" -> 2 [] c = "3" -> 3
          [] c = "4" -> 4 [] c = "5" -> 5 [] c = "6" -> 6 [] c = "7" -> 7
          [] c = "8" -> 8 [] c = "9" -> 9
          [] c \in {"a", "A"} -> 10 [] c \in {"b", "B"} -> 11
          [] c \in {"c", "C"} -> 12 [] c \in {"d", "D"} -> 13
          [] c \in {"e", "E"} -> 14 [] c \in {"f", "F"} -> 15]

\* the hex digits of a payload string, its spaces dropped
RefDigits(P) == SelectSeq(P, LAMBDA c : c # " ")

\* P is a valid payload: hex digits only, an even number of them, n + 1 <= 255
ValidPayload(P) ==
    LET d == RefDigits(P)
    IN  /\ \A i \in 1..Len(d) : d[i] \in DOMAIN RefDigit
        /\ Len(d) % 2 = 0
        /\ Len(d) \div 2 + 1 <= 255

\* the two 16-bit halves of (counter + 1) mod 2^32
RefNextHi(s) == IF s.lo = 65535 THEN (IF s.hi = 65535 THEN 0 ELSE s.hi + 1) ELSE s.hi

RefNextLo(s) == IF s.lo = 65535 THEN 0 ELSE s.lo + 1

\* C2: for every valid payload string P with n decoded bytes, either builder
\* returns 0x01 0x00 0x00 (n+1), the big-endian 4 bytes of (counter before the
\* call + 1) mod 2^32, the n payload bytes, then 0xFF: n + 9 bytes in all.
C2_PacketLayout ==
    (bp_out # Unset /\ ValidPayload(bp_in)) =>
        LET d == RefDigits(bp_in)
            n == Len(d) \div 2
        IN  /\ bp_out # None
            /\ Len(bp_out) = n + 9
            /\ \A i \in 1..Len(bp_out) : bp_out[i] \in 0..255
            /\ SubSeq(bp_out, 1, 4) = <<1, 0, 0, n + 1>>
            /\ 256 * bp_out[5] + bp_out[6] = RefNextHi(bp_before)
            /\ 256 * bp_out[7] + bp_out[8] = RefNextLo(bp_before)
            /\ \A i \in 1..n :
                   bp_out[8 + i] = 16 * RefDigit[d[2 * i - 1]] + RefDigit[d[2 * i]]
            /\ bp_out[n + 9] = 255

\* a 254-byte payload was built into a packet whose length byte is 255, with
\* the counter wrapping from 0xFFFFFFFF to 0
C2_Witness ==
    /\ bp_out # Unset
    /\ ValidPayload(bp_in)
    /\ Len(RefDigits(bp_in)) = 508
    /\ Len(bp_out) = 263
    /\ bp_out[4] = 255
    /\ bp_before = SeqVal(65535, 65535)
    /\ SubSeq(bp_out, 5, 8) = <<0, 0, 0, 0>>

(***************************************************************************)
(* The command channel of app.py: C1, C3, C5, C10.                         *)
(***************************************************************************)
\* the 4-byte sequence field of a packet
PktSeq(p) == SeqVal(256 * p[5] + p[6], 256 * p[7] + p[8])

\* s + n mod 2^32
RECURSIVE RefAdd(_, _)
RefAdd(s, n) ==
    IF n = 0 THEN s ELSE RefAdd(SeqVal(RefNextHi(s), RefNextLo(s)), n - 1)

\* C1: whatever the interleaving of concurrent send_cmd calls, no two packets
\* built by visca_packet carry the same sequence number, and each packet built
\* carries the sequence number of the packet built before it, plus 1 mod 2^32.
C1_SeqUniqueIncreasing ==
    /\ \A i \in 1..Len(built) : \A j \in 1..Len(built) :
           i # j => SubSeq(built[i], 5, 8) # SubSeq(built[j], 5, 8)
    /\ \A i \in 1..(Len(built) - 1) :
           PktSeq(built[i + 1]) = RefAdd(PktSeq(built[i]), 1)

\* two calls of different threads are in progress at once, both have built a
\* packet, and the counter wrapped from 0xFFFFFFFF to 0 between them
C1_Witness ==
    /\ Len(built) = 2
    /\ \A t \in Threads : pc[t] \notin {"idle", "lock"}
    /\ SubSeq(built[1], 5, 8) = <<255, 255, 255, 255>>
    /\ SubSeq(built[2], 5, 8) = <<0, 0, 0, 0>>

\* C3: the UDP sockets of two send_cmd calls are never open at the same time:
\* at most one socket of the command channel is open in any state, also after
\* a call that ended with a send error.
C3_SocketsNeverOverlap == Cardinality(socks) <= 1

\* C5: send_cmd returns True when a reply was received and when the receive
\* wait timed out; it returns False only when the packet could not be built or
\* a socket operation (create, sendto, recvfrom other than timeout) raised.
C5_ReturnValue ==
    \A t \in Threads :
        (pc[t] \in {"unlock", "return", "idle"} /\ how[t] # "none") =>
            /\ how[t] \in {"reply", "timeout", "build", "socket", "sendto", "recv"}
            /\ ret[t].ok = TRUE <=> how[t] \in {"reply", "timeout"}
            /\ ret[t].ok = FALSE <=> how[t] \in {"build", "socket", "sendto", "recv"}

\* one call has returned True after a timeout and another False after a
\* recvfrom error
C5_Witness ==
    /\ \A t \in Threads : pc[t] = "idle"
    /\ how["t1"] = "timeout" /\ ret["t1"].ok = TRUE
    /\ how["t2"] = "recv" /\ ret["t2"].ok = FALSE

\* C10: sequence numbers follow transmission order: a packet sent before
\* another carries the earlier sequence number, and nothing of another call
\* (no allocation, no transmission) happens between the allocation of a
\* sequence number and the transmission of the packet that carries it.
C10_SeqFollowsTransmission ==
    /\ \A k \in 1..Len(evlog) :
           evlog[k].e = "tx" =>
               k > 1 /\ evlog[k - 1] = [e |-> "alloc", c |-> evlog[k].c]
    /\ \A i \in 1..Len(wire) : \A j \in 1..Len(wire) :
           i < j => \E n \in 1..MaxCalls :
                        PktSeq(wire[j]) = RefAdd(PktSeq(wire[i]), n)

\* two threads have each transmitted a packet, the calls overlapping in time
C10_Witness ==
    /\ Len(wire) = 2
    /\ \A t \in Threads : pc[t] \notin {"idle", "lock"}
    /\ cid["t1"] # cid["t2"]

(***************************************************************************)
(* Lock and socket on every exit path (C4); replies to                     *)
(* send_visca_command (C6).                                                *)
(***************************************************************************)
\* C4: send_cmd and send_visca_command release the lock and close the socket
\* they opened on every exit path: once a call has returned, its thread does
\* not hold the lock and no socket opened by the call is still open.
C4_NoLockOrSocketLeak ==
    /\ \A t \in Threads : pc[t] = "idle" => lock # t
    /\ socks \cap returned = {}

\* C6: send_visca_command returns (True, "OK") and records last_command
\* whenever a datagram was received in reply, whatever its length or first
\* byte, as it does after a timeout.
C6_AnyReplyIsAck ==
    \A t \in Threads :
        /\ (pc[t] \in {"unlock", "return", "idle"} /\ how[t] = "reply") =>
               ret[t] = Ret(TRUE, "OK")
        /\ (pc[t] = "unlock" /\ how[t] = "reply") => last_cmd = hex[t]

(***************************************************************************)
(* The relay loop: C7, C8, C9.                                             *)
(***************************************************************************)
\* C7: in app.py gen_frames, on a capture handle that stays open, the failed
\* reads number 1 to 10 in a row emit no chunk; every failed read from the
\* 11th on emits exactly one placeholder chunk and leaves stream_status
\* 'offline'; the first good read after them sets stream_status 'live' and
\* emits the real frame in the same iteration.  (A chunk is emitted when the
\* JPEG encoder succeeds.)
C7_ThresholdBehaviour ==
    prog = "app" =>
        \A v \in viewers :
            /\ it[v].chunks <= 1
            /\ (it[v].rd = "fail" /\ it[v].k <= 10) =>
                   /\ it[v].chunks = 0
                   /\ gpc[v] \in {"thresh", "top"}
                   /\ it[v].enc = "none"
            /\ (it[v].rd = "fail" /\ it[v].k >= 11 /\ gpc[v] # "thresh") =>
                   /\ gpc[v] \in {"encode", "yield", "top", "exc", "closed"}
                   /\ stream_status = "offline"
                   /\ it[v].enc = "ok" => (it[v].chunks = 1 /\ it[v].kind = "placeholder")
                   /\ gpc[v] \in {"yield", "top", "closed"} =>
                          it[v].chunks = (IF it[v].enc = "ok" THEN 1 ELSE 0)
            /\ it[v].rd = "ok" =>
                   /\ stream_status = "live"
                   /\ it[v].enc = "ok" => (it[v].chunks = 1 /\ it[v].kind = "frame")

\* after 20 failed reads in a row the read succeeded, and the iteration of
\* that read has emitted the real frame with the status 'live'
C7_Witness ==
    /\ prog = "app"
    /\ it["v1"].rd = "ok"
    /\ it["v1"].k = 20
    /\ it["v1"].chunks = 1
    /\ it["v1"].kind = "frame"
    /\ gpc["v1"] = "yield"
    /\ stream_status = "live"

\* C8: for a source that never yields a frame, also one whose capture never
\* opens, gen_frames under fair scheduling eventually emits a placeholder chunk
\* and eventually sets stream_status to 'offline'.
C8_AlwaysProducing ==
    /\ <>(it["v1"].chunks = 1 /\ it["v1"].kind = "placeholder")
    /\ <>(stream_status = "offline")

\* C9: the relay loop has no terminating path: whatever reads, encodings and
\* exceptions came before, the generator is at a place of its loop from which
\* a further step is possible, or suspended at its yield from which the
\* consumer can resume it; it is finished only when the consumer closed it.
C9_LoopNeverEnds ==
    \A v \in viewers :
        /\ gpc[v] \in {"off", "top", "read", "thresh", "encode", "exc", "yield", "closed"}
        /\ gpc[v] \in {"top", "read", "thresh", "encode", "exc"} =>
               ENABLED (AppLoop(v) \/ CtlLoop(v))
        /\ gpc[v] = "yield" => ENABLED Resume(v)

\* past the threshold, an exception raised by the encoder has been handled
\* and the loop is back at its head
C9_Witness ==
    /\ prog = "app"
    /\ gpc["v1"] = "top"
    /\ it["v1"].enc = "exc"
    /\ error_count["v1"] > Threshold

(***************************************************************************)
(* The counter and the send operation over single requests: C11 to C14.    *)
(***************************************************************************)
\* C11: the shared sequence counter always lies in 0..2^32-1, and every step
\* of the system (a send that fails or succeeds, a preset out of range, a
\* reconfiguration, a reachability probe, the relay loop) leaves it unchanged
\* or sets it to (old + 1) mod 2^32, so that 0xFFFFFFFF is followed by 0.
C11_CounterOnlyIncrements ==
    /\ [](seq.hi \in 0..65535 /\ seq.lo \in 0..65535)
    /\ [][\/ seq' = seq
          \/ seq' = SeqVal(RefNextHi(seq), RefNextLo(seq))]_vars

\* a send that started at 0xFFFFFFFF failed in sendto: the counter is 0
C11_Witness ==
    /\ bp_before = SeqVal(65535, 65535)
    /\ seq = SeqVal(0, 0)
    /\ how["t1"] = "sendto"
    /\ opc["t1"] = "done"

\* the number of events e of the call c in the history
EvCount(e, c) == Cardinality({k \in 1..Len(evlog) : evlog[k] = [e |-> e, c |-> c]})

\* the number of sequence values allocated so far
AllocCount == Cardinality({k \in 1..Len(evlog) : evlog[k].e = "alloc"})

\* C12: a send_cmd call with a valid payload consumes exactly one sequence
\* value and transmits at most one datagram, also when the transmission fails
\* with a socket error: the value consumed is not given back to the counter
\* (the counter is its start value plus the number of values consumed) and
\* the command is not sent again.
C12_OneValueOneDatagram ==
    /\ \A t \in Threads :
           (cid[t] > 0 /\ pc[t] \in {"unlock", "return", "idle"} /\ ValidPayload(arg[t])) =>
               /\ EvCount("alloc", cid[t]) = 1
               /\ EvCount("tx", cid[t]) <= 1
               /\ how[t] \in {"socket", "sendto"} => EvCount("tx", cid[t]) = 0
    /\ seq = RefAdd(bp_before, AllocCount)

\* the first call failed in sendto and transmitted nothing; the second call
\* was transmitted with the second sequence value
C12_Witness ==
    /\ \A t \in Threads : pc[t] = "idle"
    /\ cid["t1"] = 1 /\ how["t1"] = "sendto"
    /\ cid["t2"] = 2 /\ how["t2"] = "reply"
    /\ Len(wire) = 1
    /\ PktSeq(wire[1]) = RefAdd(bp_before, 2)
    /\ seq = RefAdd(bp_before, 2)

\* P has a character that is neither a hex digit nor a space, or an odd
\* number of hex digits
BadHex(P) ==
    LET d == RefDigits(P)
    IN  \/ \E i \in 1..Len(d) : d[i] \notin DOMAIN RefDigit
        \/ Len(d) % 2 = 1

\* C13: for a payload string with a non-hex character or an odd number of
\* hex digits, the builder of either script produces no packet and the send
\* operation reports failure to its caller without opening a socket or
\* transmitting a datagram; spaces and letter case in an otherwise valid
\* payload do not make the build fail.
C13_MalformedPayload ==
    \A t \in Threads :
        (req[t].name = "send" /\ cid[t] > 0) =>
            /\ BadHex(arg[t]) =>
                   /\ pc[t] \in {"lock", "decode", "unlock", "return", "idle"}
                   /\ pkt[t] = None
                   /\ built = <<>> /\ wire = <<>> /\ socks = {}
                   /\ pc[t] \in {"unlock", "return", "idle"} => ret[t].ok = FALSE
                   /\ opc[t] = "done" => opret[t] = "False"
            /\ ValidPayload(arg[t]) =>
                   /\ how[t] # "build"
                   /\ pc[t] \in {"unlock", "return", "idle"} =>
                          (pkt[t] # None /\ Len(built) = 1)

\* send_visca_command("811") has returned (False, "Packet build failed")
C13_Witness ==
    /\ prog = "ctl"
    /\ arg["t1"] = <<"8", "1", "1">>
    /\ opc["t1"] = "done"
    /\ ret["t1"] = Ret(FALSE, "Packet build failed")
    /\ opret["t1"] = "False"
    /\ seq = bp_before

\* C14: the packet builder fails with an encoding error for a payload of 255
\* or more bytes (length = len(payload) + 1 > 255): for such a payload the
\* builder returns no packet.
C14_LengthOverflowFails ==
    LET d == RefDigits(bp_in)
    IN  (/\ bp_out # Unset
         /\ \A i \in 1..Len(d) : d[i] \in DOMAIN RefDigit
         /\ Len(d) % 2 = 0
         /\ Len(d) \div 2 >= 255) => bp_out = None

(***************************************************************************)
(* The operations of app.py over single requests: C15, C17 to C20.         *)
(***************************************************************************)
\* C15: after pan_tilt, zoom, focus, preset_set or preset_call (with num in
\* 1..255) has returned, the state field of the operation (pan and tilt, zoom,
\* focus, preset_active) equals the requested value, whether the send
\* succeeded, timed out, failed with a socket error or failed to build the
\* packet.
C15_StateWrittenUnconditionally ==
    \A t \in Threads :
        (/\ opc[t] = "done"
         /\ \/ req[t].name \in {"pan_tilt", "zoom", "focus"}
            \/ /\ req[t].name \in {"preset_set", "preset_call"}
               /\ req[t].n1 \in 1..255) =>
            /\ cid[t] = 1
            /\ how[t] \in {"reply", "timeout", "build", "socket", "sendto", "recv"}
            /\ req[t].name = "pan_tilt" =>
                   (state.pan = req[t].d1 /\ state.tilt = req[t].d2)
            /\ req[t].name = "zoom" => state.zoom = req[t].d1
            /\ req[t].name = "focus" => state.focus = req[t].d1
            /\ req[t].name \in {"preset_set", "preset_call"} =>
                   state.preset_active = req[t].n1

\* pan_tilt(10, 24, 'ZZ', '03') has returned: the packet could not be built,
\* and pan is 'ZZ', tilt is '03'
C15_Witness ==
    /\ prog = "app"
    /\ req["t1"] = Req("pan_tilt", "ZZ", "03", "", 10, 24, <<>>)
    /\ opc["t1"] = "done"
    /\ how["t1"] = "build"
    /\ ret["t1"].ok = FALSE
    /\ state.pan = "ZZ" /\ state.tilt = "03"

(***************************************************************************)
(* state['last_cmd'] under concurrent sends: C16.                          *)
(***************************************************************************)
\* the bytes a valid payload string stands for
RefBytes(P) ==
    LET d == RefDigits(P)
    IN  [i \in 1..(Len(d) \div 2) |-> 16 * RefDigit[d[2 * i - 1]] + RefDigit[d[2 * i]]]

\* the payload bytes a packet carries
PktPayload(p) == SubSeq(p, 9, Len(p) - 1)

\* C16: on every send_cmd call that returns True, state['last_cmd'] is set to
\* the raw payload string of that call after the datagram was handed to the
\* socket and before the socket is closed, while the lock is held; so between
\* sends last_cmd names the command transmitted last.
C16_LastCmdRecorded ==
    /\ \A t \in Threads :
           /\ pc[t] = "setlast" =>
                  (lock = t /\ cid[t] \in socks /\ EvCount("tx", cid[t]) = 1)
           /\ pc[t] \in {"recv", "close", "close_exc"} =>
                  (lock = t /\ cid[t] \in socks /\ last_cmd = arg[t])
           /\ (pc[t] = "unlock" /\ how[t] \in {"reply", "timeout"}) =>
                  (lock = t /\ cid[t] \notin socks /\ last_cmd = arg[t] /\ ret[t].ok)
           /\ (pc[t] \in {"return", "idle"} /\ cid[t] > 0 /\ ret[t].ok) =>
                  EvCount("tx", cid[t]) = 1
    /\ (\A t \in Threads : pc[t] # "setlast") =>
           IF wire = <<>>
           THEN last_cmd = NoneText
           ELSE RefBytes(last_cmd) = PktPayload(wire[Len(wire)])

\* one call has returned True with the first payload; a later call of the
\* other thread, with a payload that has a space and lower case, waits for
\* its reply with last_cmd naming it
C16_Witness ==
    /\ Len(wire) = 2
    /\ pc["t1"] = "idle" /\ ret["t1"].ok /\ cid["t1"] = 1
    /\ arg["t1"] = <<"8","1"," ","0","1"," ","0","4"," ","0","7"," ","0","0">>
    /\ pc["t2"] = "close" /\ how["t2"] = "timeout"
    /\ arg["t2"] = <<"8","1","0","1","0","4","0","8"," ","2","a">>
    /\ last_cmd = arg["t2"]

\* the two upper-case hex digits of a byte
RefHexDigit ==
    [n \in 0..15 |->
        CASE n = 0 -> "0" [] n = 1 -> "1" [] n = 2 -> "2" [] n = 3 -> "3"
          [] n = 4 -> "4" [] n = 5 -> "5" [] n = 6 -> "6" [] n = 7 -> "7"
          [] n = 8 -> "8" [] n = 9 -> "9" [] n = 10 -> "A" [] n = 11 -> "B"
          [] n = 12 -> "C" [] n = 13 -> "D" [] n = 14 -> "E" [] n = 15 -> "F"]

RefHex2(b) == <<RefHexDigit[b \div 16], RefHexDigit[b % 16]>>

RefClamp(x, lo, hi) == IF x < lo THEN lo ELSE IF x > hi THEN hi ELSE x

\* the thread t has called send_cmd with the string whose bytes are B, and
\* whatever it has built or sent are those bytes
SendsBytes(t, B) ==
    /\ RefBytes(arg[t]) = B
    /\ pkt[t] # None => PktPayload(pkt[t]) = B
    /\ \A i \in 1..Len(wire) : PktPayload(wire[i]) = B

\* C17: zoom(direction, speed) sends payload 81 01 04 07 <b> where, for every
\* integer speed, b = 0x20 + clamp(speed, 0, 7) for 'in', b = 0x30 +
\* clamp(speed, 0, 7) for 'out', and b = 0x00 for 'stop' whatever the speed.
C17_ZoomPayload ==
    \A t \in Threads :
        (req[t].name = "zoom" /\ opc[t] # "idle") =>
            LET b == CASE req[t].d1 = "in" -> 32 + RefClamp(req[t].n1, 0, 7)
                       [] req[t].d1 = "out" -> 48 + RefClamp(req[t].n1, 0, 7)
                       [] req[t].d1 = "stop" -> 0
            IN  /\ arg[t] = <<"8","1"," ","0","1"," ","0","4"," ","0","7"," ">> \o RefHex2(b)
                /\ SendsBytes(t, <<129, 1, 4, 7, b>>)

\* zoom('out', 26) has transmitted 81 01 04 07 37
C17_Witness ==
    /\ req["t1"] = Req("zoom", "out", "", "", 26, 0, <<>>)
    /\ opc["t1"] = "done"
    /\ Len(wire) = 1
    /\ PktPayload(wire[1]) = <<129, 1, 4, 7, 55>>

\* C18: focus(direction, speed) sends payload 81 01 04 08 <b> where, for every
\* integer speed, b = 0x20 + clamp(speed, 0, 8) for 'near', b = 0x30 +
\* clamp(speed, 0, 8) for 'far', and b = 0x00 for 'stop'.
C18_FocusPayload ==
    \A t \in Threads :
        (req[t].name = "focus" /\ opc[t] # "idle") =>
            LET b == CASE req[t].d1 = "near" -> 32 + RefClamp(req[t].n1, 0, 8)
                       [] req[t].d1 = "far" -> 48 + RefClamp(req[t].n1, 0, 8)
                       [] req[t].d1 = "stop" -> 0
            IN  /\ arg[t] = <<"8","1"," ","0","1"," ","0","4"," ","0","8"," ">> \o RefHex2(b)
                /\ SendsBytes(t, <<129, 1, 4, 8, b>>)

\* focus('near', 8) has transmitted 81 01 04 08 28
C18_Witness ==
    /\ req["t1"] = Req("focus", "near", "", "", 8, 0, <<>>)
    /\ opc["t1"] = "done"
    /\ Len(wire) = 1
    /\ PktPayload(wire[1]) = <<129, 1, 4, 8, 40>>

\* C19: for every num in 1..255, preset_call sends 81 01 04 3F 02 <num>,
\* preset_set sends 81 01 04 3F 00 <num> and preset_delete sends
\* 81 01 04 3F 01 <num>, num being one byte.
C19_PresetPayload ==
    \A t \in Threads :
        (/\ req[t].name \in {"preset_set", "preset_call", "preset_delete"}
         /\ req[t].n1 \in 1..255
         /\ opc[t] # "idle") =>
            LET c == CASE req[t].name = "preset_call" -> 2
                       [] req[t].name = "preset_set" -> 0
                       [] req[t].name = "preset_delete" -> 1
            IN  /\ arg[t] = <<"8","1"," ","0","1"," ","0","4"," ","3","F"," ">>
                                \o RefHex2(c) \o <<" ">> \o RefHex2(req[t].n1)
                /\ SendsBytes(t, <<129, 1, 4, 63, c, req[t].n1>>)

\* preset_call(5) has transmitted 81 01 04 3F 02 05 and returned True
C19_Witness ==
    /\ req["t1"] = Req("preset_call", "", "", "", 5, 0, <<>>)
    /\ opc["t1"] = "done"
    /\ opret["t1"] = "True"
    /\ Len(wire) = 1
    /\ PktPayload(wire[1]) = <<129, 1, 4, 63, 2, 5>>

\* C20: pan_tilt sends payload 81 01 06 01 <panSpeed> <tiltSpeed> <panDir>
\* <tiltDir> with each axis speed clamped to [0,24]: a speed above 24 is sent
\* as 24, a speed below 0 as 0, a speed within 0..24 unchanged.
C20_PanTiltClamped ==
    \A t \in Threads :
        (req[t].name = "pan_tilt" /\ opc[t] # "idle") =>
            arg[t] = <<"8","1"," ","0","1"," ","0","6"," ","0","1"," ">>
                         \o RefHex2(RefClamp(req[t].n1, 0, 24)) \o <<" ">>
                         \o RefHex2(RefClamp(req[t].n2, 0, 24)) \o <<" ">>
                         \o Text(req[t].d1) \o <<" ">> \o Text(req[t].d2)


(***************************************************************************)
(* C21: a preset recall, save or delete whose number lies outside 1..255   *)
(* does nothing: no packet is built, no value of the counter is used, the  *)
(* lock is never taken, no socket is created, no datagram is sent, and     *)
(* neither the state fields nor last_cmd change; the operation returns     *)
(* False.                                                                  *)
(***************************************************************************)
C21_BadPresetIsNoOp ==
    \A t \in Threads :
        (/\ prog = "app"
         /\ req[t].name \in {"preset_set", "preset_call", "preset_delete"}
         /\ (req[t].n1 < 1 \/ req[t].n1 > 255))
        => /\ built = <<>>
           /\ wire = <<>>
           /\ evlog = <<>>
           /\ seq = bp_before
           /\ lock = NoThread
           /\ socks = {}
           /\ ncalls = 0
           /\ pc[t] = "idle"
           /\ state = StateStart
           /\ last_cmd = NoneText
           /\ (opc[t] = "done" => opret[t] = "False")

C21_Witness ==
    /\ req["t1"].name = "preset_call"
    /\ req["t1"].n1 = 256
    /\ opc["t1"] = "done"
    /\ opret["t1"] = "False"
    /\ wire = <<>>
    /\ state.preset_active = 0


\* the payloads of the three stop commands
StopBytes == << <<129, 1, 6, 1, 0, 0, 3, 3>>, <<129, 1, 4, 7, 0>>, <<129, 1, 4, 8, 0>> >>

\* the calls of the send function a stop-all has made so far
StopCalls(t) ==
    CASE opc[t] = "idle" -> 0
      [] opc[t] \in {"stop1", "stop1p", "stop1t"} -> 1
      [] opc[t] \in {"stop2", "stop2z"} -> 2
      [] OTHER -> 3

(***************************************************************************)
(* C22: stop-all attempts its three commands in the order pan/tilt stop,   *)
(* zoom stop, focus stop, each as a send of its own with the payloads      *)
(* 81 01 06 01 00 00 03 03, 81 01 04 07 00, 81 01 04 08 00: every call     *)
(* builds its packet with the next sequence value, and whether or not the  *)
(* datagram of an earlier call left, the later calls are made; once the    *)
(* route has returned, three calls have been made.                         *)
(***************************************************************************)
C22_StopAllAttemptsAll ==
    \A t \in Threads :
        req[t].name = "stop" =>
            /\ ncalls = StopCalls(t)
            /\ Len(built) \in {ncalls, ncalls - 1}
            /\ (pc[t] = "idle" \/ opc[t] = "done") => Len(built) = ncalls
            /\ \A i \in 1..Len(built) :
                   /\ PktPayload(built[i]) = StopBytes[i]
                   /\ PktSeq(built[i]) = RefAdd(bp_before, i)
            /\ \A i \in 1..Len(wire) : \E j \in 1..Len(built) : wire[i] = built[j]
            /\ \A i \in 1..Len(wire) : \A j \in 1..Len(wire) :
                   i < j => PktSeq(wire[i]) # PktSeq(wire[j])
            /\ opc[t] = "done" => /\ ncalls = 3
                                  /\ opret[t] = IF prog = "app" THEN "OK" ELSE "STOPPED"

\* the first two sends have failed in the transport and the third has left
C22_Witness ==
    /\ req["t1"].name = "stop"
    /\ opc["t1"] = "done"
    /\ Len(built) = 3
    /\ Len(wire) = 1
    /\ PktPayload(wire[1]) = StopBytes[3]


\* the time of the last publication, or of the start of the process
LastPubTime == IF pub.by = "none" THEN 0 ELSE pub.at

\* a step in which the read of loop v succeeds
ReadOkStep(v) == gpc[v] = "read" /\ gpc'[v] = "encode" /\ it'[v].rd = "ok"

(***************************************************************************)
(* C23: with a single relay loop, stream_fps is the value of the last      *)
(* publication, which is the number of successful reads since the          *)
(* publication before it (the publishing read included); publications are  *)
(* at least one second apart and, when every tick of the window had a      *)
(* successful read (continuous live operation), exactly one second apart;  *)
(* the window counter is the number of reads since the last publication,   *)
(* so it is 0 right after one.  A successful read publishes if and only if *)
(* one second or more has passed since the last publication.               *)
(***************************************************************************)
C23_FpsOncePerSecond ==
    /\ [](prog = "app" =>
            /\ stream_frame_count = wreads["v1"]
            /\ pub.by = "none" => stream_fps = 0
            /\ pub.by # "none" =>
                   /\ stream_fps = pub.v
                   /\ pub.v = pub.r["v1"]
                   /\ pub.at - pub.prev >= TicksPerSec
                   /\ ~pub.gap => pub.at - pub.prev = TicksPerSec)
    /\ [][(prog = "app" /\ ReadOkStep("v1")) =>
             /\ (pub' # pub) <=> (now - LastPubTime >= TicksPerSec)
             /\ (pub' # pub) => (stream_frame_count' = 0 /\ pub'.at = now)]_vars

\* a second of continuous live operation, after an earlier publication, in
\* which the loop has read MaxFrames + 1 frames
C23_Witness ==
    /\ prog = "app"
    /\ pub.by = "v1"
    /\ pub.prev > 0
    /\ ~pub.gap
    /\ pub.at = pub.prev + TicksPerSec
    /\ pub.v = MaxFrames + 1
    /\ stream_fps = MaxFrames + 1
    /\ stream_frame_count = 0


\* the bytes of "--frame\r\nContent-Type: image/jpeg\r\n\r\n"
RefChunkHead ==
    <<45, 45, 102, 114, 97, 109, 101, 13, 10, 67, 111, 110, 116, 101, 110, 116, 45,
      84, 121, 112, 101, 58, 32, 105, 109, 97, 103, 101, 47, 106, 112, 101, 103, 13, 10,
      13, 10>>

\* a JPEG image: it starts with FF D8 and ends with FF D9
IsJpeg(b) ==
    /\ Len(b) >= 4
    /\ SubSeq(b, 1, 2) = <<255, 216>>
    /\ SubSeq(b, Len(b) - 1, Len(b)) = <<255, 217>>

(***************************************************************************)
(* C24: every chunk gen_frames yields, for a live frame and for a          *)
(* placeholder, in app.py and in ptz11_controller.py, is the line          *)
(* --frame, the line Content-Type: image/jpeg, an empty line, the JPEG     *)
(* bytes and a line end; an iteration yields at most one chunk, and the    *)
(* generator is suspended at its yield only after exactly one.             *)
(***************************************************************************)
C24_ChunkFormat ==
    \A v \in Viewers :
        /\ it[v].chunks <= 1
        /\ it[v].chunks = 0 => it[v].out = <<>>
        /\ gpc[v] = "yield" => it[v].chunks = 1
        /\ it[v].chunks = 1 =>
               LET c == it[v].out
                   n == Len(c)
                   h == Len(RefChunkHead)
               IN  /\ n >= h + 2
                   /\ SubSeq(c, 1, h) = RefChunkHead
                   /\ SubSeq(c, n - 1, n) = <<13, 10>>
                   /\ IsJpeg(SubSeq(c, h + 1, n - 2))
                   /\ it[v].kind \in {"frame", "placeholder"}

\* app.py yields a placeholder chunk
C24_Witness ==
    /\ prog = "app"
    /\ gpc["v1"] = "yield"
    /\ it["v1"].kind = "placeholder"
    /\ it["v1"].out = RefChunkHead \o <<255, 216, 0, 255, 217, 13, 10>>


(***************************************************************************)
(* C25: after each probe, in app.py and in ptz11_controller.py, the        *)
(* reachable flag is true exactly when the ping command exited with code   *)
(* 0; when the probe itself fails (subprocess.run raises, its timeout      *)
(* included) the flag is false and the probe still returns; the probe      *)
(* takes no lock and changes nothing else: not the other state fields,     *)
(* last_cmd, the counter, the configuration or the sockets.                *)
(***************************************************************************)
C25_ProbeSetsReachable ==
    \A t \in Threads :
        req[t].name = "probe" =>
            /\ opc[t] = "idle" => state = StateStart
            /\ opc[t] = "done" =>
                   /\ opret[t] \in {"exit0", "exit1", "raised"}
                   /\ state.reachable = (opret[t] = "exit0")
                   /\ state = [StateStart EXCEPT !.reachable = (opret[t] = "exit0")]
            /\ lock = NoThread
            /\ last_cmd = NoneText
            /\ seq = bp_before
            /\ socks = {}
            /\ wire = <<>>
            /\ cam.ip = "192.168.1.11"

\* a probe in which subprocess.run raised has returned
C25_Witness ==
    /\ req["t1"].name = "probe"
    /\ opc["t1"] = "done"
    /\ opret["t1"] = "raised"
    /\ ~state.reachable


(***************************************************************************)
(* C26: in gen_frames of app.py the consecutive-failure counter equals the *)
(* number of failed reads since the later of the last successful read and  *)
(* the last (re)open of the capture: an open and a successful read set it  *)
(* to 0, a failed read adds exactly 1, and no other step changes it.       *)
(***************************************************************************)
C26_CounterIsConsecutiveFailures ==
    /\ [](prog = "app" => \A v \in Viewers : error_count[v] = nfail[v])
    /\ [][prog = "app" =>
             \A v \in Viewers :
                 /\ (gpc[v] = "top" /\ gpc'[v] = "read" /\ cap[v] # "open")
                        => error_count'[v] = 0
                 /\ (gpc[v] = "read" /\ gpc'[v] = "encode") => error_count'[v] = 0
                 /\ (gpc[v] = "read" /\ gpc'[v] = "thresh")
                        => error_count'[v] = error_count[v] + 1
                 /\ (gpc[v] # "read" /\ ~(gpc[v] = "top" /\ gpc'[v] = "read"))
                        => error_count'[v] = error_count[v]]_vars

\* the third failed read in a row, after a read that had succeeded
C26_Witness ==
    /\ prog = "app"
    /\ gpc["v1"] = "thresh"
    /\ it["v1"].rd = "fail"
    /\ error_count["v1"] = 3
    /\ nfail["v1"] = 3
    /\ stream_status = "buffering"
    /\ frame["v1"] = "frame"


(***************************************************************************)
(* C27: after a failed read, and so after an Offline iteration that has    *)
(* emitted a placeholder, the loop closes and reopens the capture before   *)
(* its next read attempt: whenever a loop is about to read, no read has    *)
(* failed on the capture it holds since that capture was opened or last    *)
(* gave a frame.                                                           *)
(***************************************************************************)
C27_ReopenAfterFailedRead ==
    \A v \in Viewers : gpc[v] = "read" => nfail[v] = 0


(***************************************************************************)
(* C28: in gen_frames of app.py an exception raised by the read, the       *)
(* resize or the encoding is counted as a failed iteration: when the loop  *)
(* is back at its top after such an iteration, the consecutive-failure     *)
(* counter is at least 1 (it was incremented and nothing has reset it).    *)
(***************************************************************************)
C28_ExceptionCountsAsFailure ==
    \A v \in Viewers :
        (prog = "app" /\ gpc[v] = "top" /\ (it[v].rd = "exc" \/ it[v].enc = "exc"))
            => error_count[v] >= 1


(***************************************************************************)
(* C29: with two relay loops, each loop has a frame counter and a window   *)
(* start of its own: every value of stream_fps published is the number of  *)
(* successful reads of the loop that publishes it, since that loop last    *)
(* published, and never contains reads of the other loop.                  *)
(***************************************************************************)
C29_FpsOfOneLoop ==
    pub.by # "none" => (stream_fps = pub.v /\ pub.v = pub.r[pub.by])


(***************************************************************************)
(* C30: a status read that runs while move commands are served returns a   *)
(* consistent snapshot: it never holds the pan direction of one pan_tilt   *)
(* call together with the tilt direction of another.  (Every move request  *)
(* of MoveReqs gives its call the same value for both directions, so two   *)
(* different directions in a snapshot come from two calls.)                *)
(***************************************************************************)
C30_StatusSnapshotConsistent ==
    \A t \in Threads :
        (req[t].name = "status" /\ opc[t] = "done"
            /\ snap[t].pan \in {"01", "02"} /\ snap[t].tilt \in {"01", "02"})
        => snap[t].pan = snap[t].tilt


(***************************************************************************)
(* C36: when send_cmd of app.py returns False, state['last_cmd'] has the   *)
(* value it had before the call, whatever made the call fail: the packet   *)
(* build, socket(), sendto, or a recvfrom error other than the timeout.    *)
(* (In a process that serves one raw send, the value before the call is    *)
(* None.)                                                                  *)
(***************************************************************************)
C36_LastCmdKeptOnFailure ==
    \A t \in Threads :
        (/\ prog = "app"
         /\ req[t].name = "send"
         /\ cid[t] > 0
         /\ pc[t] \in {"unlock", "return", "idle"}
         /\ ~ret[t].ok)
        => last_cmd = NoneText


(***************************************************************************)
(* C37: a send_cmd call of app.py whose payload is malformed hex takes no  *)
(* sequence value and sends nothing, and last_cmd never holds its payload: *)
(* the counter is its start value plus the number of values taken by the   *)
(* calls with a valid payload, and the packets built carry consecutive     *)
(* sequence numbers, so the valid send after a failed one uses the number  *)
(* the failed call would have used.                                        *)
(***************************************************************************)
C37_MalformedLeavesCounter ==
    /\ \A t \in Threads :
           (cid[t] > 0 /\ BadHex(arg[t])) =>
               /\ EvCount("alloc", cid[t]) = 0
               /\ EvCount("tx", cid[t]) = 0
               /\ last_cmd # arg[t]
               /\ pc[t] \in {"unlock", "return", "idle"} => ~ret[t].ok
    /\ \A i \in 1..Len(built) : PktSeq(built[i]) = RefAdd(bp_before, i)
    /\ (\A t \in Threads : pc[t] \notin {"gs_store"}) => seq = RefAdd(bp_before, AllocCount)
    /\ (\A t \in Threads : pc[t] \notin {"gs_store", "asm"}) => Len(built) = AllocCount

\* the first call, with payload ZZ, has returned False; the second call has
\* built its packet with the first sequence number after the start value
C37_Witness ==
    /\ prog = "app"
    /\ cid["t1"] = 1 /\ BadHex(arg["t1"]) /\ pc["t1"] = "idle" /\ ~ret["t1"].ok
    /\ cid["t2"] = 2 /\ pc["t2"] = "mksock"
    /\ Len(built) = 1
    /\ PktSeq(built[1]) = RefAdd(bp_before, 1)


(***************************************************************************)
(* C38: preset_set, preset_call and preset_delete of app.py return True    *)
(* exactly when num lies in 1..255 and False otherwise, whatever the       *)
(* outcome of the send they made.                                          *)
(***************************************************************************)
C38_PresetResultIsRangeTest ==
    \A t \in Threads :
        (/\ prog = "app"
         /\ req[t].name \in {"preset_set", "preset_call", "preset_delete"}
         /\ opc[t] = "done")
        => /\ opret[t] \in {"True", "False"}
           /\ (opret[t] = "True") <=> (1 <= req[t].n1 /\ req[t].n1 <= 255)

\* a preset save with a number in range whose send failed has returned True
C38_Witness ==
    /\ prog = "app"
    /\ req["t1"].name = "preset_set"
    /\ req["t1"].n1 = 255
    /\ opc["t1"] = "done"
    /\ cid["t1"] > 0
    /\ ~ret["t1"].ok
    /\ opret["t1"] = "True"


(***************************************************************************)
(* C39: in gen_frames of app.py only a successful read touches the         *)
(* frame-rate accounting: every step that changes stream_fps, the frame    *)
(* counter or the window start is a successful read, so an iteration whose *)
(* read failed (below or past the threshold, placeholder sent or not)      *)
(* leaves all three as they were; stream_fps is not set to 0 in an outage  *)
(* and placeholder frames are not counted.                                 *)
(***************************************************************************)
C39_FailedReadKeepsAccounting ==
    [][prog = "app" =>
        \A v \in Viewers :
            /\ (<<stream_fps, stream_frame_count, stream_last_time>>'
                    # <<stream_fps, stream_frame_count, stream_last_time>>)
               => \E w \in Viewers : ReadOkStep(w)
            /\ (gpc[v] \in {"read", "thresh", "encode", "yield"} /\ ~ReadOkStep(v)
                    /\ gpc'[v] # gpc[v] /\ (it'[v].rd = "fail" \/ frame[v] = "placeholder"))
               => /\ stream_fps' = stream_fps
                  /\ stream_frame_count' = stream_frame_count
                  /\ stream_last_time' = stream_last_time]_vars

\* the source is offline, a placeholder chunk has been yielded, and the
\* frame rate published while the stream was live is still there, with
\* reads of the current window still counted
C39_Witness ==
    /\ prog = "app"
    /\ \E v \in Viewers :
           /\ gpc[v] = "yield"
           /\ it[v].kind = "placeholder"
           /\ error_count[v] > Threshold
    /\ stream_status = "offline"
    /\ stream_fps > 0
    /\ stream_frame_count > 0


(***************************************************************************)
(* C40: a configuration update of app.py that fails (answer 400, for       *)
(* instance because the port is no number) leaves the host, the port and   *)
(* the RTSP URL as they were.                                              *)
(***************************************************************************)
C40_FailedConfigChangesNothing ==
    \A t \in Threads :
        (/\ prog = "app"
         /\ req[t].name = "config_post"
         /\ opc[t] = "done"
         /\ opret[t] = "400")
        => cam = CamStart


(***************************************************************************)
(* C35: once a relay loop of app.py has published 'offline', the shared    *)
(* stream status reads 'offline' until a read succeeds: while the          *)
(* consecutive-failure counter is past the first value above the threshold *)
(* (so 'offline' has been published in this outage), the status that a     *)
(* status request can read is never 'buffering'.                           *)
(***************************************************************************)
C35_OfflineStaysOffline ==
    \A v \in Viewers :
        (prog = "app" /\ v \in viewers /\ error_count[v] > Threshold + 1)
            => stream_status # "buffering"


\* the sequence field of a packet as a number
SeqNum(p) == PktSeq(p).hi * Half + PktSeq(p).lo

(***************************************************************************)
(* C32: every VISCA datagram that ptz11_controller.py sends, those of      *)
(* test_udp_connection included, carries a sequence number greater than    *)
(* that of every datagram sent before it (the counter is far from its      *)
(* wrap), so no number is used twice.                                      *)
(***************************************************************************)
C32_EveryDatagramFreshSeq ==
    prog = "ctl" =>
        \A i \in 1..Len(wire) : \A j \in 1..Len(wire) :
            i < j => SeqNum(wire[i]) < SeqNum(wire[j])


\* the call whose datagram was handed to sendto last
LastTx == wire[Len(wire)]

(***************************************************************************)
(* C33: when two concurrent pan_tilt calls of app.py have both returned,   *)
(* each with a successful send, state['pan'] and state['tilt'] are the     *)
(* direction arguments of the call whose packet was transmitted last, the  *)
(* call that state['last_cmd'] names.                                      *)
(***************************************************************************)
C33_PanTiltOfLastSent ==
    \A t \in Threads : \A u \in Threads \ {t} :
        (/\ prog = "app"
         /\ req[t].name = "pan_tilt" /\ req[u].name = "pan_tilt"
         /\ opc[t] = "done" /\ opc[u] = "done"
         /\ ret[t].ok /\ ret[u].ok
         /\ Len(wire) = 2 /\ LastTx = pkt[t])
        => /\ last_cmd = arg[t]
           /\ state.pan = req[t].d1
           /\ state.tilt = req[t].d2


\* a pan/tilt packet that is not the stop command
IsMovePkt(p) ==
    /\ Len(p) = 17
    /\ SubSeq(p, 9, 12) = <<129, 1, 6, 1>>
    /\ PktPayload(p) # StopBytes[1]

\* C34 as stated: stop-all is atomic with respect to concurrent commands:
\* a move of another caller is not transmitted between the transmission of
\* the pan/tilt stop packet and the return of stop-all
C34_StopAllAtomic ==
    \A t \in Threads : \A u \in Threads \ {t} :
        (/\ prog = "app"
         /\ req[t].name = "stop" /\ req[u].name = "pan_tilt"
         /\ pc[u] = "setlast"
         /\ \E i \in 1..(Len(wire) - 1) : PktPayload(wire[i]) = StopBytes[1])
        => opc[t] = "done"

(***************************************************************************)
(* C34, amended: stop-all of app.py is atomic with respect to concurrent   *)
(* commands packet by packet only: from the transmission of each of its    *)
(* three packets until the send that transmitted it releases the lock, no  *)
(* command of another caller is transmitted (the stop's packet is the last *)
(* datagram sent and the stop holds the lock).                             *)
(***************************************************************************)
C34_StopSendsAtomic ==
    \A t \in Threads :
        (/\ prog = "app"
         /\ req[t].name = "stop"
         /\ pc[t] \in {"setlast", "recv", "close", "close_exc", "unlock"}
         /\ EvCount("tx", cid[t]) = 1)
        => /\ lock = t
           /\ LastTx = pkt[t]
           /\ \A u \in Threads \ {t} : pc[u] \notin {"sendto", "setlast", "recv"}

\* a move of the other caller went out between the stop's pan/tilt packet
\* and its zoom packet, which the stop has just transmitted
C34_Witness ==
    /\ prog = "app"
    /\ req["t1"].name = "stop"
    /\ opc["t1"] = "stop2"
    /\ pc["t1"] = "recv"
    /\ Len(wire) = 3
    /\ PktPayload(wire[1]) = StopBytes[1]
    /\ IsMovePkt(wire[2])
    /\ wire[3] = pkt["t1"]


\* the endpoint a configuration request asks for, given the endpoint at start
NewEndpoint(r) ==
    << IF r.d1 = "absent" THEN CamStart.ip ELSE r.d1,
       IF r.d2 = "absent" THEN CamStart.port ELSE r.d2 >>

(***************************************************************************)
(* C31: a send of app.py that overlaps a reconfiguration (one whose port   *)
(* is a number, so that it succeeds) transmits its datagram to the         *)
(* complete old endpoint or to the complete new one, never to the host of  *)
(* one with the port of the other.                                         *)
(***************************************************************************)
C31_EndpointOldOrNew ==
    \A t \in Threads : \A u \in Threads \ {t} :
        (/\ prog = "app"
         /\ req[t].name = "pan_tilt"
         /\ req[u].name = "config_post"
         /\ req[u].d1 # "nojson" /\ req[u].d2 # "bad")
        => \A i \in 1..Len(dest) :
               dest[i] \in {<<CamStart.ip, CamStart.port>>, NewEndpoint(req[u])}

==========================================================================
